---- MODULE Spec2Model ----
(***************************************************************************)
(* Model of the 1.0.2 -> 1.0.3 schema translation of VisTrails             *)
(* (vistrails/db/versions/v1_0_3/translate/v1_0_2.py).                     *)
(*                                                                         *)
(* Strings that the code parses character by character (the signature      *)
(* string of a PortSpec) are sequences of one-character strings.  Values   *)
(* the code only copies are TLA+ strings.                                  *)
(***************************************************************************)
EXTENDS Integers, Sequences, FiniteSets, TLC

VARIABLES
    id_scope,      \* the module-level id_scope (v1_0_2.py:54)
    ps_pc,         \* update_portSpec call: "call", "returned" or "raised"
    ps_old,        \* the old DBPortSpec handed to update_portSpec
    ps_new,        \* the DBPortSpec update_portSpec returned
    pe_pc,         \* createParameterExploration call: "call", "returned", "raised"
    pe_in,         \* its arguments: action_id and the parsed xmlString
    pe_out,        \* what it returned: None or a DBParameterExploration
    vt_pc,         \* translateVistrail: the position of the call
    vt_old,        \* _vistrail, the 1.0.2 vistrail handed to translateVistrail
    vt_cur,        \* the action and operation update_operations is at
    translate_dict,     \* translate_dict of translateVistrail (lines 261-268)
    new_vistrail_vars,  \* line 201
    new_param_exps,     \* line 202
    vistrail,           \* the DBVistrail of line 269, filled by update_version
    st_pc,         \* translateStartup: the position of the call
    st_old,        \* _startup, the old DBStartup
    st_dict,       \* translate_dict of translateStartup (lines 446-447)
    st_trace,      \* the record of what update_config_keys did to st_dict
    startup,       \* the DBStartup translateStartup builds
    dr_pc,         \* per top-level call: "idle", "running", "returned", "raised"
    dr_in,         \* per top-level call: the driver called and its document
    dr_out,        \* per top-level call: the new root object
    dr_scopes,     \* per top-level call: the IdScope object the call made
    wh_pc,         \* While: "update", "running", "iteration_done", "done", "error"
    wh_conf,       \* While: the values on its input ports and the looped module
    wh_i,          \* While: the number of the iteration that was started last
    wh_module,     \* While: the copy of the module of that iteration
    wh_heap,       \* While: the connector lists that the inputPorts dicts hold
    wh_state,      \* While: state, as iteration was last called with it
    wh_log,        \* While: the iterations run, with what the module read and gave
    wh_result,     \* While: the output Result and the calls of finished
    lc_kind,       \* locator: "xml" (XMLFileLocator) or "zip" (ZIPFileLocator)
    lc_name,       \* locator: _name, the file name of the vistrail
    lc_fs,         \* locator: the files on disk, file name -> content
    lc_last        \* locator: the last call and what it did

ps_vars == <<ps_pc, ps_old, ps_new>>
pe_vars == <<pe_pc, pe_in, pe_out>>
vt_vars == <<vt_pc, vt_old, vt_cur, translate_dict, new_vistrail_vars,
             new_param_exps, vistrail>>

st_vars == <<st_pc, st_old, st_dict, st_trace, startup>>
dr_vars == <<dr_pc, dr_in, dr_out, dr_scopes>>
wh_vars == <<wh_pc, wh_conf, wh_i, wh_module, wh_heap, wh_state, wh_log, wh_result>>
lc_vars == <<lc_kind, lc_name, lc_fs, lc_last>>

vars == <<id_scope, ps_vars, pe_vars, vt_vars, st_vars, dr_vars, wh_vars, lc_vars>>

----------------------------------------------------------------------------
(* Bounds of the model *)

\* longest signature body (the text between the parentheses)
MaxSigLen == 5
\* longest list or tuple that a defaults / labels literal decodes to
MaxLits == 3
\* most <function> elements of a __paramexp__ document
MaxFuncs == 3
\* most <param> elements of one <function> element
MaxParams == 3
\* most operations, annotations and action annotations of a vistrail, together
MaxItems == 3
\* the keys of a top-level configuration
MaxKeys == 2
\* the keys of a configuration held by a key
MaxInnerKeys == 2
\* the modules at the top of a workflow, vistrail or registry
MaxModules == 2

----------------------------------------------------------------------------
(* Python values and helpers *)

\* Python's None, for a field that holds a character sequence otherwise
None == <<"None">>

NoScope == [kind |-> "None"]

Min(a, b) == IF a < b THEN a ELSE b

SeqsUpTo(S, n) == UNION {[1..k -> S] : k \in 0..n}

\* s.find(c) + 1: the first position of character c in s, 0 when absent
find(s, c) ==
    IF \E i \in 1..Len(s) : s[i] = c
    THEN CHOOSE i \in 1..Len(s) : s[i] = c /\ \A j \in 1..(i-1) : s[j] # c
    ELSE 0

\* s.split(sep, maxsplit); maxsplit < 0 is s.split(sep)
RECURSIVE split(_, _, _)
split(s, sep, maxsplit) ==
    LET i == find(s, sep)
    IN  IF maxsplit = 0 \/ i = 0
        THEN <<s>>
        ELSE <<SubSeq(s, 1, i-1)>> \o split(SubSeq(s, i+1, Len(s)), sep, maxsplit-1)

\* s[1:-1]
strip_ends(s) == SubSeq(s, 2, Len(s)-1)

----------------------------------------------------------------------------
(* IdScope: one counter per type name *)

IdTypes == {"portSpecItem", "peParameter", "peFunction", "parameterExploration"}

\* IdScope(): every counter at its first id
NewIdScope == [kind |-> "IdScope", ids |-> [t \in IdTypes |-> 0]]

\* scope.getNewId(t): the id handed out
getNewId(scope, t) == scope.ids[t]

\* scope after getNewId(t)
afterNewId(scope, t) == [scope EXCEPT !.ids[t] = @ + 1]

----------------------------------------------------------------------------
(* update_portSpec *)

\* decode_sigstring with every ':' split (sig.split(':') for sig.split(':', 2))
decode_sigstring_split_all(sigstring) ==
    IF sigstring # <<>> /\ sigstring # <<"(", ")">>
    THEN LET entries == split(strip_ends(sigstring), ",", -1)
         IN  [i \in 1..Len(entries) |-> split(entries[i], ":", -1)]
    ELSE <<>>

\* lines 58-62: the signature entries, each split into at most 3 parts
decode_sigstring(sigstring) ==
    IF sigstring # <<>> /\ sigstring # <<"(", ")">>
    THEN LET entries == split(strip_ends(sigstring), ",", -1)
         IN  [i \in 1..Len(entries) |-> split(entries[i], ":", 2)]
    ELSE <<>>

\* lines 64-71 (defaults) and 73-80 (labels): eval of the literal text, then
\* the wrapping of a string or a non-iterable into a 1-tuple.
\* A literal is [form, elems]: form "empty" is the empty / missing text,
\* "list" and "tuple" the text of a list or tuple of elems, "str" and "num"
\* the text of one string / one number elems[1], "bad" text that eval rejects.
eval_literal(lit) ==
    CASE lit.form = "empty" -> [raised |-> FALSE, type |-> "list", elems |-> <<>>]
      [] lit.form = "list"  -> [raised |-> FALSE, type |-> "list", elems |-> lit.elems]
      [] lit.form = "tuple" -> [raised |-> FALSE, type |-> "tuple", elems |-> lit.elems]
      [] lit.form = "str"   -> [raised |-> FALSE, type |-> "tuple", elems |-> <<lit.elems[1]>>]
      [] lit.form = "num"   -> [raised |-> FALSE, type |-> "tuple", elems |-> <<lit.elems[1]>>]
      [] OTHER              -> [raised |-> TRUE, type |-> "none", elems |-> <<>>]

\* pad_literal without the padding (lines 83-86 left out)
pad_literal_no_padding(v, total_len) == v

\* lines 83-84 / 85-86: seq.extend("" ...) up to total_len; only a list has
\* extend, on a tuple the call raises AttributeError
pad_literal(v, total_len) ==
    IF Len(v.elems) < total_len
    THEN IF v.type = "list"
         THEN [v EXCEPT !.elems = @ \o [i \in 1..(total_len - Len(v.elems)) |-> ""]]
         ELSE [v EXCEPT !.raised = TRUE]
    ELSE v

\* lines 88-106: the DBPortSpecItem of position i (1-based here, pos is i-1)
port_spec_item(i, sig, default, label, scope) ==
    [id        |-> getNewId(scope, "portSpecItem") + (i - 1),
     pos       |-> i - 1,
     module    |-> IF Len(sig) = 1 THEN sig[1] ELSE sig[2],
     package   |-> IF Len(sig) = 1 THEN None ELSE sig[1],
     namespace |-> IF Len(sig) > 2 THEN sig[3] ELSE <<>>,
     label     |-> label,
     default   |-> default,
     values    |-> "",
     entry_type |-> ""]

\* lines 56-108.  Result: raised, the items of the new DBPortSpec, and the
\* id scope after the call.
update_portSpec(old_obj, scope) ==
    LET sigs      == decode_sigstring(old_obj.sigstring)
        defaults0 == eval_literal(old_obj.defaults)
        labels0   == eval_literal(old_obj.labels)
        total_len == Len(sigs)
        defaults  == pad_literal(defaults0, total_len)
        labels    == pad_literal(labels0, total_len)
        n         == Min(total_len, Min(Len(defaults.elems), Len(labels.elems)))
    IN  IF defaults0.raised \/ labels0.raised \/ defaults.raised \/ labels.raised
           \/ (n > 0 /\ scope.kind # "IdScope")
        THEN [raised |-> TRUE, portSpecItems |-> <<>>, scope |-> scope]
        ELSE [raised |-> FALSE,
              portSpecItems |->
                  [i \in 1..n |-> port_spec_item(i, sigs[i], defaults.elems[i],
                                                 labels.elems[i], scope)],
              scope |-> IF n = 0 THEN scope
                        ELSE [scope EXCEPT !.ids["portSpecItem"] = @ + n]]

----------------------------------------------------------------------------
(* Inputs of update_portSpec *)

SigChars == {"a", ":", ","}

\* the k-th element of a literal: "d1", "d2", ... for tag "d"
LitValues(tag) == [i \in 1..(MaxLits + 1) |-> tag \o ToString(i)]

\* the literal texts
Literals(tag) ==
    {[form |-> "empty", elems |-> <<>>], [form |-> "bad", elems |-> <<>>]}
    \cup {[form |-> f, elems |-> SubSeq(LitValues(tag), 1, k)] :
              f \in {"list", "tuple"}, k \in 0..MaxLits}
    \cup {[form |-> f, elems |-> SubSeq(LitValues(tag), 1, 1)] : f \in {"str", "num"}}

Sigstrings ==
    {<<>>} \cup {<<"(">> \o body \o <<")">> : body \in SeqsUpTo(SigChars, MaxSigLen)}

OldPortSpecs ==
    [sigstring : Sigstrings, defaults : Literals("d"), labels : Literals("l")]

NoPortSpec == [raised |-> FALSE, portSpecItems |-> <<>>]

\* the update_portSpec call not in use
IdlePortSpec ==
    /\ ps_pc = "idle"
    /\ ps_old = [sigstring |-> <<>>, defaults |-> [form |-> "empty", elems |-> <<>>],
                 labels |-> [form |-> "empty", elems |-> <<>>]]
    /\ ps_new = NoPortSpec

\* the createParameterExploration call not in use
IdlePE ==
    /\ pe_pc = "idle"
    /\ pe_in = [action_id |-> 0, xml |-> [form |-> "empty"]]
    /\ pe_out = [kind |-> "None"]

EmptyVistrail ==
    [version |-> "None", actions |-> <<>>, annotations |-> <<>>,
     actionAnnotations |-> <<>>, vistrailVariables |-> <<>>,
     parameter_explorations |-> <<>>]

\* translateVistrail not in use
IdleVistrail ==
    /\ vt_pc = "idle"
    /\ vt_old = [version |-> "1.0.2", actions |-> <<>>, annotations |-> <<>>,
                 actionAnnotations |-> <<>>]
    /\ vt_cur = <<1, 1>>
    /\ translate_dict = <<>>
    /\ new_vistrail_vars = <<>>
    /\ new_param_exps = <<>>
    /\ vistrail = EmptyVistrail

\* translateStartup not in use
IdleStartup ==
    /\ st_pc = "idle"
    /\ st_old = [version |-> "None", configuration |-> <<>>]
    /\ st_dict = <<>>
    /\ st_trace = <<>>
    /\ startup = [version |-> "None", configuration |-> <<>>]

\* the top-level calls a run makes
Calls == {1, 2}

NoDocument == [driver |-> "None", version |-> "None"]

\* no top-level call made
IdleDrivers ==
    /\ dr_pc = [c \in Calls |-> "idle"]
    /\ dr_in = [c \in Calls |-> NoDocument]
    /\ dr_out = [c \in Calls |-> NoDocument]
    /\ dr_scopes = [c \in Calls |-> NoScope]

NoModule == [inputPorts |-> <<>>, outputPorts |-> <<>>, loop_iteration |-> 0]

NoState == [bound |-> FALSE, values |-> <<>>]

NoResult == [set |-> FALSE, value |-> <<>>, finished |-> 0]

NoWhileConf ==
    [name_output |-> "None", name_condition |-> "None",
     name_state_input |-> [set |-> FALSE, names |-> <<>>],
     name_state_output |-> [set |-> FALSE, names |-> <<>>],
     max_iterations |-> 1, has_max_iterations |-> FALSE, limit |-> 0,
     function_port |-> 1,
     upToDate |-> FALSE, orig_module |-> NoModule]

NoCall == [op |-> "None", ok |-> TRUE, file |-> <<>>, n |-> 0]

\* the While module not in use
IdleWhile ==
    /\ wh_pc = "idle"
    /\ wh_conf = NoWhileConf
    /\ wh_i = 0
    /\ wh_module = NoModule
    /\ wh_heap = <<>>
    /\ wh_state = NoState
    /\ wh_log = <<>>
    /\ wh_result = NoResult

\* the locator not in use
IdleLocator ==
    /\ lc_kind = "xml"
    /\ lc_name = <<>>
    /\ lc_fs = <<>>
    /\ lc_last = NoCall

InitPortSpec ==
    /\ id_scope = NewIdScope
    /\ ps_pc = "call"
    /\ ps_old \in OldPortSpecs
    /\ ps_new = NoPortSpec
    /\ IdlePE
    /\ IdleVistrail
    /\ IdleStartup
    /\ IdleDrivers
    /\ IdleWhile
    /\ IdleLocator

\* one call of update_portSpec under a driver that has set id_scope
CallUpdatePortSpec ==
    /\ ps_pc = "call"
    /\ LET r == update_portSpec(ps_old, id_scope)
       IN  /\ ps_pc' = IF r.raised THEN "raised" ELSE "returned"
           /\ ps_new' = [raised |-> r.raised, portSpecItems |-> r.portSpecItems]
           /\ id_scope' = r.scope
    /\ UNCHANGED <<ps_old, pe_vars, vt_vars, st_vars, dr_vars, wh_vars, lc_vars>>

NextPortSpec == CallUpdatePortSpec

SpecPortSpec == InitPortSpec /\ [][NextPortSpec]_vars

----------------------------------------------------------------------------
(* Properties of update_portSpec *)

Count(s, c) == Cardinality({i \in 1..Len(s) : s[i] = c})

\* position of the k-th c in s; 0 for k = 0 and Len(s)+1 past the last one
NthPos(s, c, k) ==
    IF k = 0 THEN 0
    ELSE IF k > Count(s, c) THEN Len(s) + 1
    ELSE CHOOSE p \in 1..Len(s) : s[p] = c /\ Count(SubSeq(s, 1, p), c) = k

\* the number of comma-separated entries of a signature string
NumEntries(sigstring) ==
    IF sigstring = <<>> \/ sigstring = <<"(", ")">> THEN 0
    ELSE Count(strip_ends(sigstring), ",") + 1

\* the text of the i-th comma-separated entry (i from 1)
Entry(sigstring, i) ==
    LET body == strip_ends(sigstring)
    IN  SubSeq(body, NthPos(body, ",", i-1) + 1, NthPos(body, ",", i) - 1)

\* the i-th element of a decoded literal, "" past its end
ElemOrEmpty(lit, i) == IF i <= Len(lit.elems) THEN lit.elems[i] ELSE ""

\* the item carries the package / module / namespace of the entry text e
ItemHasSignature(item, e) ==
    LET colons == Count(e, ":")
    IN  CASE colons = 0 ->
               /\ item.module = e
               /\ item.package = None
               /\ item.namespace = <<>>
          [] colons = 1 ->
               /\ item.package # None
               /\ item.package \o <<":">> \o item.module = e
               /\ item.namespace = <<>>
          [] OTHER ->
               /\ item.package # None
               /\ Count(item.package, ":") = 0
               /\ Count(item.module, ":") = 0
               /\ item.package \o <<":">> \o item.module \o <<":">> \o item.namespace = e

ListForms == {"empty", "list"}
WrappedForms == {"tuple", "str", "num"}

\* C1: for an old PortSpec with n comma-separated signature entries whose
\* defaults and labels decode to lists of any length, update_portSpec returns
\* exactly n items; item i has pos i, the i-th signature, and the i-th default
\* and label when the list has one and "" otherwise (excess elements ignored).
C1_ItemsZipAndPad ==
    (ps_pc # "call" /\ ps_old.defaults.form \in ListForms
                    /\ ps_old.labels.form \in ListForms)
    => /\ ps_pc = "returned"
       /\ Len(ps_new.portSpecItems) = NumEntries(ps_old.sigstring)
       /\ \A i \in 1..Len(ps_new.portSpecItems) :
              LET item == ps_new.portSpecItems[i]
              IN  /\ item.pos = i - 1
                  /\ ItemHasSignature(item, Entry(ps_old.sigstring, i))
                  /\ item.default = ElemOrEmpty(ps_old.defaults, i)
                  /\ item.label = ElemOrEmpty(ps_old.labels, i)

\* a call that padded the defaults and dropped an excess label
C1_Witness ==
    /\ ps_pc = "returned"
    /\ Len(ps_new.portSpecItems) = 2
    /\ ps_old.defaults.form = "list" /\ Len(ps_old.defaults.elems) = 1
    /\ ps_old.labels.form = "list" /\ Len(ps_old.labels.elems) = 3
    /\ ps_new.portSpecItems[2].default = ""
    /\ ps_new.portSpecItems[2].label = "l2"

\* C2: when defaults or labels decode to a bare string, a tuple or a
\* non-iterable value, update_portSpec pads it like a list: the call returns,
\* the result has n items, and item i carries the i-th decoded element when
\* there is one and "" otherwise.
C2_WrappedLiteralsPadded ==
    (/\ ps_pc # "call"
     /\ NumEntries(ps_old.sigstring) >= 2
     /\ ps_old.defaults.form \in ListForms \cup WrappedForms
     /\ ps_old.labels.form \in ListForms \cup WrappedForms
     /\ (ps_old.defaults.form \in WrappedForms \/ ps_old.labels.form \in WrappedForms))
    => /\ ps_pc = "returned"
       /\ Len(ps_new.portSpecItems) = NumEntries(ps_old.sigstring)
       /\ \A i \in 1..Len(ps_new.portSpecItems) :
              /\ ps_new.portSpecItems[i].default = ElemOrEmpty(ps_old.defaults, i)
              /\ ps_new.portSpecItems[i].label = ElemOrEmpty(ps_old.labels, i)

\* C3: every item carries the decoding of its signature entry split on ':'
\* into at most 3 parts: module alone; package and module; or package, module
\* and namespace, any further ':' staying inside the namespace.
C3_SignatureParts ==
    ps_pc = "returned"
    => \A i \in 1..Len(ps_new.portSpecItems) :
           ItemHasSignature(ps_new.portSpecItems[i], Entry(ps_old.sigstring, i))

\* a returned item whose namespace kept a further ':'
C3_Witness ==
    /\ ps_pc = "returned"
    /\ \E i \in 1..Len(ps_new.portSpecItems) :
           /\ ps_new.portSpecItems[i].package = <<"a">>
           /\ ps_new.portSpecItems[i].module = <<"a">>
           /\ Count(ps_new.portSpecItems[i].namespace, ":") > 0

----------------------------------------------------------------------------
(* createParameterExploration *)

\* the local variable value before its first assignment
Unbound == "<unbound>"

Interpolators == {"Linear Interpolation", "RGB Interpolation", "HSV Interpolation",
                  "List", "User-defined Function", "Other"}

\* the functions of the pipeline in the order the nested loops of lines
\* 139-140 (and 152-153) visit them, each with the id of its module
RECURSIVE scan_functions(_)
scan_functions(modules) ==
    IF modules = <<>> THEN <<>>
    ELSE LET m == Head(modules)
         IN  [i \in 1..Len(m.functions) |->
                 [module_id |-> m.id, function |-> m.functions[i]]]
             \o scan_functions(Tail(modules))

\* the parameters of the pipeline in the order of the loops of lines 152-154
RECURSIVE scan_parameters(_)
scan_parameters(fs) ==
    IF fs = <<>> THEN <<>>
    ELSE Head(fs).function.parameters \o scan_parameters(Tail(fs))

\* lookup_function with a break at the first match
lookup_function_first_hit(pipeline, f_id) ==
    LET hits == SelectSeq(scan_functions(pipeline.modules),
                          LAMBDA x : x.function.id = f_id)
    IN  IF hits = <<>>
        THEN [found |-> FALSE, module_id |-> 0, f_name |-> ""]
        ELSE [found |-> TRUE,
              module_id |-> hits[1].module_id,
              f_name |-> hits[1].function.name]

\* lines 137-144: module_id and f_name after the scan; every match overwrites
\* the one before, the loop never stops early
lookup_function(pipeline, f_id) ==
    LET hits == SelectSeq(scan_functions(pipeline.modules),
                          LAMBDA x : x.function.id = f_id)
    IN  IF hits = <<>>
        THEN [found |-> FALSE, module_id |-> 0, f_name |-> ""]
        ELSE [found |-> TRUE,
              module_id |-> hits[Len(hits)].module_id,
              f_name |-> hits[Len(hits)].function.name]

\* function_resolved that asks only whether the id matched
function_resolved_by_id(r) == r.found

\* line 145: module_id and f_name (None, 0 and '' are false)
function_resolved(r) == r.found /\ r.module_id # 0 /\ r.f_name # ""

\* lines 151-157: p_pos after the scan
lookup_param(pipeline, p_id) ==
    LET hits == SelectSeq(scan_parameters(scan_functions(pipeline.modules)),
                          LAMBDA x : x.id = p_id)
    IN  IF hits = <<>>
        THEN [found |-> FALSE, pos |-> 0]
        ELSE [found |-> TRUE, pos |-> hits[Len(hits)].pos]

\* interp_value with the empty text for an interpolator that no branch names
interp_value_fallback(p, value) ==
    CASE p.interp = "Linear Interpolation" ->
             "[" \o p.min \o ", " \o p.max \o "]"
      [] p.interp \in {"RGB Interpolation", "HSV Interpolation"} ->
             "[\"" \o p.min \o "\", \"" \o p.max \o "\"]"
      [] p.interp = "List" -> p.values
      [] p.interp = "User-defined Function" -> p.code
      [] OTHER -> ""

\* interp_value with the colour interpolators formatted like the linear one
interp_value_unquoted(p, value) ==
    CASE p.interp \in {"Linear Interpolation", "RGB Interpolation",
                       "HSV Interpolation"} ->
             "[" \o p.min \o ", " \o p.max \o "]"
      [] p.interp = "List" -> p.values
      [] p.interp = "User-defined Function" -> p.code
      [] OTHER -> value

\* lines 160-173: value after the if / elif chain; an interpolator that no
\* branch names leaves value as it was
interp_value(p, value) ==
    CASE p.interp = "Linear Interpolation" ->
             "[" \o p.min \o ", " \o p.max \o "]"
      [] p.interp \in {"RGB Interpolation", "HSV Interpolation"} ->
             "[\"" \o p.min \o "\", \"" \o p.max \o "\"]"
      [] p.interp = "List" -> p.values
      [] p.interp = "User-defined Function" -> p.code
      [] OTHER -> value

\* pe_parameters with continue for the break of line 159: an unresolved
\* <param> is skipped and the ones after it are still processed
RECURSIVE pe_parameters_continue(_, _, _)
pe_parameters_continue(params, pipeline, st) ==
    IF params = <<>> THEN st
    ELSE LET p    == Head(params)
             look == lookup_param(pipeline, p.id)
             value == interp_value(p, st.value)
         IN  IF ~look.found THEN pe_parameters_continue(Tail(params), pipeline, st)
             ELSE IF value = Unbound THEN [st EXCEPT !.raised = TRUE]
             ELSE pe_parameters_continue(Tail(params), pipeline,
                      [raised |-> FALSE,
                       value |-> value,
                       scope |-> afterNewId(st.scope, "peParameter"),
                       parameters |-> Append(st.parameters,
                           [id |-> getNewId(st.scope, "peParameter"),
                            pos |-> look.pos,
                            interpolator |-> p.interp,
                            value |-> value,
                            dimension |-> p.dim])])

\* lines 148-179: the loop over the <param> elements of one function.
\* st = [raised, value, scope, parameters]
RECURSIVE pe_parameters(_, _, _)
pe_parameters(params, pipeline, st) ==
    IF params = <<>> THEN st
    ELSE LET p    == Head(params)
             look == lookup_param(pipeline, p.id)
             value == interp_value(p, st.value)
         IN  IF ~look.found THEN st
             ELSE IF value = Unbound THEN [st EXCEPT !.raised = TRUE]
             ELSE pe_parameters(Tail(params), pipeline,
                      [raised |-> FALSE,
                       value |-> value,
                       scope |-> afterNewId(st.scope, "peParameter"),
                       parameters |-> Append(st.parameters,
                           [id |-> getNewId(st.scope, "peParameter"),
                            pos |-> look.pos,
                            interpolator |-> p.interp,
                            value |-> value,
                            dimension |-> p.dim])])

\* pe_functions with continue for the break of line 146: an unresolved
\* <function> is skipped and the ones after it are still processed
RECURSIVE pe_functions_continue(_, _, _)
pe_functions_continue(fs, pipeline, st) ==
    IF fs = <<>> THEN st
    ELSE LET f == Head(fs)
             r == lookup_function(pipeline, f.id)
             pst == pe_parameters(f.params, pipeline,
                        [raised |-> FALSE, value |-> st.value,
                         scope |-> st.scope, parameters |-> <<>>])
         IN  IF ~function_resolved(r) THEN pe_functions_continue(Tail(fs), pipeline, st)
             ELSE IF pst.raised THEN [st EXCEPT !.raised = TRUE]
             ELSE pe_functions_continue(Tail(fs), pipeline,
                      [raised |-> FALSE,
                       value |-> pst.value,
                       scope |-> afterNewId(pst.scope, "peFunction"),
                       functions |-> Append(st.functions,
                           [id |-> getNewId(pst.scope, "peFunction"),
                            module_id |-> r.module_id,
                            port_name |-> r.f_name,
                            is_alias |-> IF f.alias = "True" THEN 1 ELSE 0,
                            parameters |-> pst.parameters])])

\* lines 134-186: the loop over the <function> elements.
\* st = [raised, value, scope, functions]
RECURSIVE pe_functions(_, _, _)
pe_functions(fs, pipeline, st) ==
    IF fs = <<>> THEN st
    ELSE LET f == Head(fs)
             r == lookup_function(pipeline, f.id)
             pst == pe_parameters(f.params, pipeline,
                        [raised |-> FALSE, value |-> st.value,
                         scope |-> st.scope, parameters |-> <<>>])
         IN  IF ~function_resolved(r) THEN st
             ELSE IF pst.raised THEN [st EXCEPT !.raised = TRUE]
             ELSE pe_functions(Tail(fs), pipeline,
                      [raised |-> FALSE,
                       value |-> pst.value,
                       scope |-> afterNewId(pst.scope, "peFunction"),
                       functions |-> Append(st.functions,
                           [id |-> getNewId(pst.scope, "peFunction"),
                            module_id |-> r.module_id,
                            port_name |-> r.f_name,
                            is_alias |-> IF f.alias = "True" THEN 1 ELSE 0,
                            parameters |-> pst.parameters])])

\* lines 119-193.  xml is the text of the annotation: form "empty" is the empty
\* text, "malformed" text that parseString rejects, "ok" a document with its
\* <function> elements.  pipeline is what materializeWorkflow returns.
\* Result: kind "None", "raised" or "pe", and the id scope after the call.
createParameterExploration(action_id, xml, pipeline, scope) ==
    IF xml.form # "ok"
    THEN [kind |-> "None", scope |-> scope]
    ELSE LET st == pe_functions(xml.functions, pipeline,
                       [raised |-> FALSE, value |-> Unbound,
                        scope |-> scope, functions |-> <<>>])
         IN  IF st.raised
             THEN [kind |-> "raised", scope |-> st.scope]
             ELSE [kind |-> "pe",
                   pe |-> [id |-> getNewId(st.scope, "parameterExploration"),
                           action_id |-> action_id,
                           dims |-> xml.dims,
                           layout |-> xml.layout,
                           date |-> xml.date,
                           functions |-> st.functions],
                   scope |-> afterNewId(st.scope, "parameterExploration")]

----------------------------------------------------------------------------
(* Inputs of createParameterExploration *)

\* The materialized pipeline: module 0 owns function 3; module 1 owns function
\* 1 (parameters 1 and 2), function 4 (no name) and function 5; module 2 owns
\* function 2 (parameter 3) and a second function 5.
Pipeline ==
    [modules |-> <<
        [id |-> 0, functions |-> <<
            [id |-> 3, name |-> "SetZ", parameters |-> <<[id |-> 4, pos |-> 0]>>] >>],
        [id |-> 1, functions |-> <<
            [id |-> 1, name |-> "SetA",
             parameters |-> <<[id |-> 1, pos |-> 0], [id |-> 2, pos |-> 1]>>],
            [id |-> 4, name |-> "", parameters |-> <<>>],
            [id |-> 5, name |-> "SetC", parameters |-> <<>>] >>],
        [id |-> 2, functions |-> <<
            [id |-> 2, name |-> "SetB", parameters |-> <<[id |-> 3, pos |-> 0]>>],
            [id |-> 5, name |-> "SetD", parameters |-> <<>>] >>] >>]

\* a <param> element; its other attributes are told apart by its id
ParamElem(id, interp) ==
    [id |-> id, interp |-> interp,
     min |-> "lo" \o ToString(id), max |-> "hi" \o ToString(id),
     values |-> "[v" \o ToString(id) \o "]", code |-> "code" \o ToString(id),
     dim |-> id]

\* ids of <function> elements: 9 is in no module
FunctionIds == {1, 2, 3, 4, 5, 9}
\* ids of <param> elements: 9 is in no function
ParamIds == {1, 2, 9}

ParamElems ==
    {ParamElem(1, i) : i \in Interpolators}
    \cup {ParamElem(2, "Other"), ParamElem(9, "Linear Interpolation")}

FunctionElem(id, alias, params) == [id |-> id, alias |-> alias, params |-> params]

XmlDoc(functions) ==
    [form |-> "ok", functions |-> functions,
     dims |-> "[1,1,1,1]", layout |-> "{}", date |-> "2013-01-01"]

\* documents with many <function> elements and few <param> elements
FunctionDocs ==
    {XmlDoc(fs) : fs \in SeqsUpTo(
        {FunctionElem(id, "False", ps) :
            id \in FunctionIds,
            ps \in {<<ParamElem(1, "Other")>>,
                   <<ParamElem(1, "Linear Interpolation"), ParamElem(2, "List")>>}},
        MaxFuncs)}

\* documents with many <param> elements in the first <function> element
ParamDocs ==
    {XmlDoc(<<FunctionElem(1, alias, ps)>> \o rest) :
        alias \in {"True", "true"},
        ps \in SeqsUpTo(ParamElems, MaxParams),
        rest \in {<<>>, <<FunctionElem(2, "False", <<ParamElem(2, "Other")>>)>>}}

XmlDocs == {[form |-> "empty"], [form |-> "malformed"]} \cup FunctionDocs \cup ParamDocs

ActionIds == {1, 2}

InitPE ==
    /\ id_scope = NewIdScope
    /\ pe_pc = "call"
    /\ pe_in \in [action_id : ActionIds, xml : XmlDocs]
    /\ pe_out = [kind |-> "None"]
    /\ IdlePortSpec
    /\ IdleVistrail
    /\ IdleStartup
    /\ IdleDrivers
    /\ IdleWhile
    /\ IdleLocator

\* one call of createParameterExploration, with vistrail.idScope in id_scope
CallCreateParameterExploration ==
    /\ pe_pc = "call"
    /\ LET r == createParameterExploration(pe_in.action_id, pe_in.xml,
                                           Pipeline, id_scope)
       IN  /\ pe_pc' = IF r.kind = "raised" THEN "raised" ELSE "returned"
           /\ pe_out' = IF r.kind = "pe" THEN [kind |-> "pe", pe |-> r.pe]
                        ELSE [kind |-> r.kind]
           /\ id_scope' = r.scope
    /\ UNCHANGED <<pe_in, ps_vars, vt_vars, st_vars, dr_vars, wh_vars, lc_vars>>

NextPE == CallCreateParameterExploration

SpecPE == InitPE /\ [][NextPE]_vars

----------------------------------------------------------------------------
(* translateVistrail *)

NoData == [kind |-> "none"]

\* the class whose update_version translates the operation (lines 211-230)
OpClass(op) ==
    CASE op.vtType = "add"    -> "DBAdd"
      [] op.vtType = "change" -> "DBChange"
      [] OTHER                -> "DBDelete"

\* lines 261-268
StaticTranslateDict ==
    [DBModule           |-> [portSpecs |-> "update_portSpecs"],
     DBModuleDescriptor |-> [portSpecs |-> "update_portSpecs"],
     DBAction           |-> [operations |-> "update_operations"],
     DBGroup            |-> [workflow |-> "update_workflow"],
     DBVistrail         |-> [annotations |-> "update_annotations",
                             actionAnnotations |-> "update_actionAnnotations"]]

\* trans_dict[cls] = {'data': update_portSpec_op}  (lines 215, 224)
set_override(trans_dict, cls) ==
    [k \in DOMAIN trans_dict \cup {cls} |->
        IF k = cls THEN [data |-> "update_portSpec_op"] ELSE trans_dict[k]]

\* del_override with the del statement left out
del_override_missing(trans_dict, cls) == trans_dict

\* del trans_dict[cls]  (lines 218, 227)
del_override(trans_dict, cls) ==
    [k \in DOMAIN trans_dict \ {cls} |-> trans_dict[k]]

\* line 113: new_port_specs.append(update_portSpec(port_spec, translate_dict));
\* st is the loop state (raised, the new port specs so far, the id scope) and
\* r the result of the call
append_portSpec(st, r) ==
    IF r.raised THEN [st EXCEPT !.raised = TRUE]
    ELSE [raised |-> FALSE,
          portSpecs |-> Append(st.portSpecs,
                               [kind |-> "portSpec", portSpecItems |-> r.portSpecItems]),
          scope |-> r.scope]

\* lines 112-113: the loop over the port specs that are left
RECURSIVE update_portSpecs_loop(_, _)
update_portSpecs_loop(portSpecs, st) ==
    IF portSpecs = <<>> \/ st.raised THEN st
    ELSE update_portSpecs_loop(Tail(portSpecs),
             append_portSpec(st, update_portSpec(Head(portSpecs), st.scope)))

\* lines 110-114: update_portSpec over the port specs of a module.
\* Result: raised, the new port specs, the id scope after the call.
update_portSpecs(portSpecs, scope) ==
    update_portSpecs_loop(portSpecs,
                          [raised |-> FALSE, portSpecs |-> <<>>, scope |-> scope])

\* the new payload of an operation around the result r of update_portSpec
portSpec_data(r) ==
    [raised |-> r.raised,
     data |-> [kind |-> "portSpec", portSpecItems |-> r.portSpecItems],
     scope |-> r.scope]

\* lines 116-117: update_portSpec on the payload of the operation; a payload
\* that is no port spec has no db_sigstring and the call raises
update_portSpec_op(old_obj, scope) ==
    IF old_obj.data.kind = "portSpec"
    THEN portSpec_data(update_portSpec(old_obj.data, scope))
    ELSE [raised |-> TRUE, data |-> NoData, scope |-> scope]

\* the new payload of an operation around the result r of update_portSpecs
module_data(r) ==
    [raised |-> r.raised,
     data |-> [kind |-> "module", portSpecs |-> r.portSpecs],
     scope |-> r.scope]

\* The generic update_version of the payload of an operation: a port spec is
\* copied field by field (it gets no items), a module is copied with the
\* override that trans_dict holds for its port specs.
update_version_data(data, trans_dict, scope) ==
    CASE data.kind = "portSpec" ->
             [raised |-> FALSE,
              data |-> [kind |-> "portSpec", portSpecItems |-> <<>>],
              scope |-> scope]
      [] data.kind = "module" ->
             IF "DBModule" \in DOMAIN trans_dict
                /\ "portSpecs" \in DOMAIN trans_dict["DBModule"]
             THEN module_data(update_portSpecs(data.portSpecs, scope))
             ELSE [raised |-> FALSE,
                   data |-> [kind |-> "module",
                             portSpecs |-> [i \in 1..Len(data.portSpecs) |->
                                 [kind |-> "portSpec", portSpecItems |-> <<>>]]],
                   scope |-> scope]
      [] OTHER -> [raised |-> FALSE, data |-> NoData, scope |-> scope]

\* the new operation around the result r of translating its payload
new_op(obj, r) ==
    [raised |-> r.raised,
     op |-> [vtType |-> obj.vtType, what |-> obj.what, data |-> r.data],
     scope |-> r.scope]

\* DBAdd / DBChange / DBDelete.update_version(obj, trans_dict): the override
\* of field data when trans_dict holds one for the class, the generic copy
\* otherwise.  Result: raised, the new operation, the id scope after.
update_version_op(obj, trans_dict, scope) ==
    new_op(obj,
           IF OpClass(obj) \in DOMAIN trans_dict
              /\ "data" \in DOMAIN trans_dict[OpClass(obj)]
           THEN update_portSpec_op(obj, scope)
           ELSE update_version_data(obj.data, trans_dict, scope))

\* vistrail_variable with name and uuid passed in each other's place
vistrail_variable_swapped(name, data) ==
    [name |-> data[1], uuid |-> name, package |-> data[2][1],
     module |-> data[2][2], namespace |-> data[2][3], value |-> data[3]]

\* lines 238-241: the DBVistrailVariable of one entry name -> data of the mapping
vistrail_variable(name, data) ==
    [name |-> name, uuid |-> data[1], package |-> data[2][1],
     module |-> data[2][2], namespace |-> data[2][3], value |-> data[3]]

\* the orders in which iteritems() may yield the (name, data) items of a dict
iteritems(items) ==
    {order \in [1..Cardinality(items) -> items] :
        \A item \in items : \E i \in DOMAIN order : order[i] = item}

\* the generic DBAnnotation / DBActionAnnotation.update_version: a copy
update_version_annotation(a) == a

\* update_annotations with the test of line 236 left out: every annotation
\* is copied
RECURSIVE update_annotations_copy_all(_)
update_annotations_copy_all(annotations) ==
    IF annotations = <<>> THEN {[new_annotations |-> <<>>, vars |-> <<>>]}
    ELSE {[new_annotations |-> <<update_version_annotation(Head(annotations))>>
                               \o r.new_annotations,
           vars |-> r.vars] : r \in update_annotations_copy_all(Tail(annotations))}

\* lines 233-247: the results update_annotations can give: new_annotations
\* and the variables it appends to new_vistrail_vars
RECURSIVE update_annotations(_)
update_annotations(annotations) ==
    IF annotations = <<>> THEN {[new_annotations |-> <<>>, vars |-> <<>>]}
    ELSE LET a == Head(annotations)
         IN  IF a.key = "__vistrail_vars__"
             THEN {[new_annotations |-> r.new_annotations,
                    vars |-> [i \in DOMAIN order |->
                                 vistrail_variable(order[i].name, order[i].data)]
                             \o r.vars] :
                        order \in iteritems(a.value),
                        r \in update_annotations(Tail(annotations))}
             ELSE {[new_annotations |-> <<update_version_annotation(a)>>
                                        \o r.new_annotations,
                    vars |-> r.vars] : r \in update_annotations(Tail(annotations))}

PyNone == [kind |-> "None"]

\* lines 254-255: new_param_exps.append(pe), whatever pe is; st is the loop
\* state and pe the result of createParameterExploration
append_param_exp(st, pe) ==
    IF pe.kind = "raised" THEN [st EXCEPT !.raised = TRUE]
    ELSE [st EXCEPT !.pes = Append(@, IF pe.kind = "pe"
                                      THEN [kind |-> "pe", pe |-> pe.pe]
                                      ELSE PyNone),
                    !.scope = pe.scope]

\* lines 251-257: the loop over the action annotations that are left
RECURSIVE update_actionAnnotations_loop(_, _, _)
update_actionAnnotations_loop(actionAnnotations, pipeline, st) ==
    IF actionAnnotations = <<>> \/ st.raised THEN st
    ELSE update_actionAnnotations_loop(Tail(actionAnnotations), pipeline,
             IF Head(actionAnnotations).key = "__paramexp__"
             THEN append_param_exp(st,
                      createParameterExploration(Head(actionAnnotations).action_id,
                                                 Head(actionAnnotations).value,
                                                 pipeline, st.scope))
             ELSE [st EXCEPT !.new_actionAnnotations =
                      Append(@, update_version_annotation(Head(actionAnnotations)))])

\* lines 249-259.  Result: raised, new_actionAnnotations, what was appended
\* to new_param_exps (a DBParameterExploration or None per __paramexp__
\* annotation), the id scope after.
update_actionAnnotations(actionAnnotations, pipeline, scope) ==
    update_actionAnnotations_loop(actionAnnotations, pipeline,
        [raised |-> FALSE, new_actionAnnotations |-> <<>>, pes |-> <<>>,
         scope |-> scope])

----------------------------------------------------------------------------
(* Inputs of translateVistrail *)

\* a port spec "(a:a,a)" with one default and no label
GoodPortSpec ==
    [kind |-> "portSpec",
     sigstring |-> <<"(", "a", ":", "a", ",", "a", ")">>,
     defaults |-> [form |-> "list", elems |-> <<"d1">>],
     labels |-> [form |-> "empty", elems |-> <<>>]]

\* a port spec "(a,a)" whose defaults are the bare string 'd1'
StringDefaultPortSpec ==
    [kind |-> "portSpec",
     sigstring |-> <<"(", "a", ",", "a", ")">>,
     defaults |-> [form |-> "str", elems |-> <<"d1">>],
     labels |-> [form |-> "empty", elems |-> <<>>]]

ModuleData == [kind |-> "module", portSpecs |-> <<GoodPortSpec>>]

Operations ==
    {[vtType |-> "delete", what |-> "module", data |-> NoData],
     [vtType |-> "add", what |-> "module", data |-> ModuleData],
     [vtType |-> "change", what |-> "module", data |-> ModuleData],
     [vtType |-> "add", what |-> "portSpec", data |-> GoodPortSpec],
     [vtType |-> "change", what |-> "portSpec", data |-> GoodPortSpec],
     [vtType |-> "add", what |-> "portSpec", data |-> StringDefaultPortSpec]}

\* the operations in one action, or the first one in an action of its own
SplitActions(ops) ==
    IF ops = <<>> THEN {<<>>}
    ELSE {<<ops>>} \cup
         (IF Len(ops) >= 2 THEN {<<SubSeq(ops, 1, 1), SubSeq(ops, 2, Len(ops))>>} ELSE {})

\* one item of the dict a __vistrail_vars__ annotation holds: name -> (uuid,
\* (package, module, namespace), value)
VarItem(n) ==
    [name |-> n,
     data |-> <<"uuid-" \o n, <<"org.vistrails.basic", "Integer", "">>, "value-" \o n>>]

VarMappings == {{VarItem("a"), VarItem("b")}, {VarItem("c")}}

\* the value of an annotation is the items of the dict its text evaluates to
\* (none for a text that is no dict)
Annotations ==
    {[key |-> "__vistrail_vars__", value |-> m] : m \in VarMappings}
    \cup {[key |-> "__notes__", value |-> {}],
          [key |-> "__paramexp__", value |-> {}]}

\* every id resolves
FullDoc ==
    XmlDoc(<<FunctionElem(1, "True", <<ParamElem(1, "Linear Interpolation"),
                                        ParamElem(2, "List")>>),
             FunctionElem(5, "False", <<ParamElem(2, "Other")>>)>>)

\* the second <param> and the second <function> do not resolve
PartialDoc ==
    XmlDoc(<<FunctionElem(2, "False", <<ParamElem(1, "RGB Interpolation"),
                                         ParamElem(9, "Linear Interpolation"),
                                         ParamElem(2, "List")>>),
             FunctionElem(9, "False", <<>>),
             FunctionElem(1, "False", <<>>)>>)

\* value is read before it is bound
UnboundDoc == XmlDoc(<<FunctionElem(2, "False", <<ParamElem(1, "Other")>>)>>)

ActionAnnotations ==
    {[key |-> "__paramexp__", action_id |-> 1, value |-> [form |-> "empty"]],
     [key |-> "__paramexp__", action_id |-> 2, value |-> [form |-> "malformed"]],
     [key |-> "__paramexp__", action_id |-> 1, value |-> FullDoc],
     [key |-> "__paramexp__", action_id |-> 2, value |-> FullDoc],
     [key |-> "__paramexp__", action_id |-> 2, value |-> PartialDoc],
     [key |-> "__paramexp__", action_id |-> 1, value |-> UnboundDoc],
     [key |-> "__thumb__", action_id |-> 1, value |-> [form |-> "text"]],
     [key |-> "__vistrail_vars__", action_id |-> 2, value |-> [form |-> "text"]]}

OldVistrails ==
    UNION {UNION {UNION {
        {[version |-> "1.0.2", actions |-> acts, annotations |-> anns,
          actionAnnotations |-> aas] : acts \in SplitActions(ops)} :
            aas \in SeqsUpTo(ActionAnnotations, MaxItems - Len(ops) - Len(anns))} :
            anns \in SeqsUpTo(Annotations, MaxItems - Len(ops))} :
            ops \in SeqsUpTo(Operations, MaxItems)}

InitVistrail ==
    /\ id_scope = NoScope
    /\ vt_pc = "start"
    /\ vt_old \in OldVistrails
    /\ vt_cur = <<1, 1>>
    /\ translate_dict = <<>>
    /\ new_vistrail_vars = <<>>
    /\ new_param_exps = <<>>
    /\ vistrail = EmptyVistrail
    /\ IdlePortSpec
    /\ IdlePE
    /\ IdleStartup
    /\ IdleDrivers
    /\ IdleWhile
    /\ IdleLocator

\* lines 201-202 and 261-271, up to the first override that update_version
\* calls: the plain fields are copied
StartTranslateVistrail ==
    /\ vt_pc = "start"
    /\ translate_dict' = StaticTranslateDict
    /\ vistrail' = [EmptyVistrail EXCEPT !.version = vt_old.version]
    /\ id_scope' = NewIdScope
    /\ new_vistrail_vars' = <<>>
    /\ new_param_exps' = <<>>
    /\ vt_cur' = <<1, 1>>
    /\ vt_pc' = IF vt_old.actions = <<>> THEN "annotations" ELSE "op"
    /\ UNCHANGED <<vt_old, ps_vars, pe_vars, st_vars, dr_vars, wh_vars, lc_vars>>

CurrentOp == vt_old.actions[vt_cur[1]][vt_cur[2]]

IsPortSpecOp(op) == op.vtType \in {"add", "change"} /\ op.what = "portSpec"

\* the operation after the current one, in this action or the next
NextCursor ==
    IF vt_cur[2] < Len(vt_old.actions[vt_cur[1]])
    THEN <<vt_cur[1], vt_cur[2] + 1>>
    ELSE <<vt_cur[1] + 1, 1>>

\* AppendOp that puts the new operation first
AppendOp_first(actions, ai, op) ==
    IF ai > Len(actions) THEN Append(actions, <<op>>)
    ELSE [actions EXCEPT ![ai] = <<op>> \o @]

\* new_ops.append(new_op), in the action update_operations is called for
AppendOp(actions, ai, op) ==
    IF ai > Len(actions) THEN Append(actions, <<op>>)
    ELSE [actions EXCEPT ![ai] = Append(@, op)]

\* lines 215 and 224
SetPortSpecOverride ==
    /\ vt_pc = "op"
    /\ IsPortSpecOp(CurrentOp)
    /\ translate_dict' = set_override(translate_dict, OpClass(CurrentOp))
    /\ vt_pc' = "op_override"
    /\ UNCHANGED <<id_scope, vt_old, vt_cur, new_vistrail_vars, new_param_exps,
                   vistrail, ps_vars, pe_vars, st_vars, dr_vars, wh_vars, lc_vars>>

\* the rest of one pass of the loop of update_operations: update_version of
\* the operation, new_ops.append, and for a portSpec operation the del of the
\* override (lines 212, 216-218, 220-221, 225-227, 229-230)
TranslateOp ==
    /\ \/ vt_pc = "op" /\ ~IsPortSpecOp(CurrentOp)
       \/ vt_pc = "op_override"
    /\ \E r \in {update_version_op(CurrentOp, translate_dict, id_scope)} :
           IF r.raised
           THEN /\ vt_pc' = "raised"
                /\ UNCHANGED <<id_scope, vt_cur, translate_dict, vistrail>>
           ELSE /\ vistrail' = [vistrail EXCEPT
                                   !.actions = AppendOp(@, vt_cur[1], r.op)]
                /\ id_scope' = r.scope
                /\ translate_dict' =
                       IF vt_pc = "op_override"
                       THEN del_override(translate_dict, OpClass(CurrentOp))
                       ELSE translate_dict
                /\ vt_cur' = NextCursor
                /\ vt_pc' = IF NextCursor[1] > Len(vt_old.actions)
                            THEN "annotations" ELSE "op"
    /\ UNCHANGED <<vt_old, new_vistrail_vars, new_param_exps, ps_vars, pe_vars, st_vars, dr_vars, wh_vars, lc_vars>>

\* lines 233-247, called by DBVistrail.update_version for field annotations
UpdateAnnotations ==
    /\ vt_pc = "annotations"
    /\ \E r \in update_annotations(vt_old.annotations) :
           /\ vistrail' = [vistrail EXCEPT !.annotations = r.new_annotations]
           /\ new_vistrail_vars' = new_vistrail_vars \o r.vars
    /\ vt_pc' = "actionAnnotations"
    /\ UNCHANGED <<id_scope, vt_old, vt_cur, translate_dict, new_param_exps,
                   ps_vars, pe_vars, st_vars, dr_vars, wh_vars, lc_vars>>

\* lines 249-259, called by DBVistrail.update_version for field actionAnnotations
UpdateActionAnnotations ==
    /\ vt_pc = "actionAnnotations"
    /\ \E r \in {update_actionAnnotations(vt_old.actionAnnotations, Pipeline, id_scope)} :
           IF r.raised
           THEN /\ vt_pc' = "raised"
                /\ UNCHANGED <<id_scope, vistrail, new_param_exps>>
           ELSE /\ vistrail' = [vistrail EXCEPT
                                   !.actionAnnotations = r.new_actionAnnotations]
                /\ new_param_exps' = new_param_exps \o r.pes
                /\ id_scope' = r.scope
                /\ vt_pc' = "attach"
    /\ UNCHANGED <<vt_old, vt_cur, translate_dict, new_vistrail_vars, ps_vars, pe_vars, st_vars, dr_vars, wh_vars, lc_vars>>

\* lines 272-278.  db_add_parameter_exploration(None) either keeps the None
\* in the collection or raises when it reads the db_id of its argument.
AttachCollections ==
    /\ vt_pc = "attach"
    /\ \/ /\ vistrail' = [vistrail EXCEPT
                             !.vistrailVariables = @ \o new_vistrail_vars,
                             !.parameter_explorations = @ \o new_param_exps,
                             !.version = "1.0.3"]
          /\ vt_pc' = "done"
       \/ /\ \E i \in DOMAIN new_param_exps : new_param_exps[i] = PyNone
          /\ vistrail' = [vistrail EXCEPT !.vistrailVariables = @ \o new_vistrail_vars]
          /\ vt_pc' = "raised"
    /\ UNCHANGED <<id_scope, vt_old, vt_cur, translate_dict, new_vistrail_vars,
                   new_param_exps, ps_vars, pe_vars, st_vars, dr_vars, wh_vars, lc_vars>>

NextVistrail ==
    \/ StartTranslateVistrail
    \/ SetPortSpecOverride
    \/ TranslateOp
    \/ UpdateAnnotations
    \/ UpdateActionAnnotations
    \/ AttachCollections

SpecVistrail == InitVistrail /\ [][NextVistrail]_vars

----------------------------------------------------------------------------
(* Properties of createParameterExploration *)

\* where the pipeline holds a function with this id: <<module, function>> indexes
FunctionHits(f_id) ==
    UNION {{<<mi, fi>> : fi \in {x \in DOMAIN Pipeline.modules[mi].functions :
                                     Pipeline.modules[mi].functions[x].id = f_id}} :
           mi \in DOMAIN Pipeline.modules}

\* the last of them in scan order
LastHit(f_id) ==
    CHOOSE h \in FunctionHits(f_id) :
        \A g \in FunctionHits(f_id) : g[1] < h[1] \/ (g[1] = h[1] /\ g[2] <= h[2])

IdMatches(f_id) == FunctionHits(f_id) # {}
OwnerId(f_id) == Pipeline.modules[LastHit(f_id)[1]].id
PortName(f_id) == Pipeline.modules[LastHit(f_id)[1]].functions[LastHit(f_id)[2]].name

\* the <function> element resolves: its id matches and the owning module id
\* and the function name are both true values
CountsAsResolved(f_id) ==
    IdMatches(f_id) /\ OwnerId(f_id) # 0 /\ PortName(f_id) # ""

Range(seq) == {seq[i] : i \in DOMAIN seq}

\* the positions of the pipeline parameters with this id
ParamPositions(p_id) ==
    {prm.pos : prm \in {x \in UNION {UNION {Range(f.parameters) : f \in Range(m.functions)} :
                                     m \in Range(Pipeline.modules)} : x.id = p_id}}

FirstUnresolvedFunction(fs) ==
    IF \A i \in 1..Len(fs) : CountsAsResolved(fs[i].id) THEN Len(fs) + 1
    ELSE CHOOSE k \in 1..Len(fs) :
             /\ ~CountsAsResolved(fs[k].id)
             /\ \A i \in 1..(k-1) : CountsAsResolved(fs[i].id)

FirstUnresolvedParam(params) ==
    IF \A j \in 1..Len(params) : ParamPositions(params[j].id) # {} THEN Len(params) + 1
    ELSE CHOOSE j \in 1..Len(params) :
             /\ ParamPositions(params[j].id) = {}
             /\ \A q \in 1..(j-1) : ParamPositions(params[q].id) # {}

\* the <param> elements the loops get to: in every function before the first
\* unresolved one, the params before its first unresolved one
ProcessedParams(f) == SubSeq(f.params, 1, FirstUnresolvedParam(f.params) - 1)

\* the first <param> the call processes names an interpolator that the chain
\* of lines 161-173 handles, so that value is bound whenever it is read
ValueAlwaysBound(fs) ==
    LET busy == {i \in 1..(FirstUnresolvedFunction(fs) - 1) : ProcessedParams(fs[i]) # <<>>}
    IN  busy # {} =>
            LET first == CHOOSE i \in busy : \A x \in busy : i <= x
            IN  ProcessedParams(fs[first])[1].interp # "Other"

\* pe carries, for each of the first n <function> elements of fs, one
\* PEFunction with the module id and port name of the matching pipeline function
CarriesFunctions(pe, fs, n) ==
    /\ Len(pe.functions) = n
    /\ \A i \in 1..n :
           /\ pe.functions[i].module_id = OwnerId(fs[i].id)
           /\ pe.functions[i].port_name = PortName(fs[i].id)

\* the PEFunction carries, for each of the first n <param> elements, one
\* PEParameter with the pos of the matching pipeline parameter
CarriesParams(function, params, n) ==
    /\ Len(function.parameters) = n
    /\ \A q \in 1..n :
           /\ function.parameters[q].pos \in ParamPositions(params[q].id)
           /\ function.parameters[q].interpolator = params[q].interp
           /\ function.parameters[q].dimension = params[q].dim

\* C8: when the k-th <function> element is the first one that does not resolve
\* and its id matches no function of the pipeline, the call raises nothing and
\* the returned ParameterExploration holds exactly the PEFunctions of the k-1
\* elements before it, in order, and none for the k-th or a later element.
\* (Stated for calls in which value is bound whenever it is read.)
C8_StopAtUnresolvedFunction ==
    (pe_pc # "call" /\ pe_in.xml.form = "ok")
    => LET fs == pe_in.xml.functions
           k  == FirstUnresolvedFunction(fs)
       IN  (k <= Len(fs) /\ ~IdMatches(fs[k].id) /\ ValueAlwaysBound(fs))
           => /\ pe_pc = "returned"
              /\ pe_out.kind = "pe"
              /\ CarriesFunctions(pe_out.pe, fs, k - 1)

\* a call with three <function> elements, the second unmatched, the third matched
C8_Witness ==
    /\ pe_pc = "returned"
    /\ pe_in.xml.form = "ok"
    /\ Len(pe_in.xml.functions) = 3
    /\ IdMatches(pe_in.xml.functions[1].id)
    /\ ~IdMatches(pe_in.xml.functions[2].id)
    /\ CountsAsResolved(pe_in.xml.functions[3].id)
    /\ pe_out.kind = "pe"
    /\ Len(pe_out.pe.functions) = 1

\* C9: when the j-th <param> element of a resolved function matches no
\* parameter of the pipeline, the function is still emitted with exactly the
\* j-1 PEParameters before it, each with the pos of the matching pipeline
\* parameter, and the next <function> element is processed.
\* (Stated for calls in which value is bound whenever it is read.)
C9_StopAtUnresolvedParam ==
    (pe_pc # "call" /\ pe_in.xml.form = "ok" /\ ValueAlwaysBound(pe_in.xml.functions))
    => LET fs == pe_in.xml.functions
       IN  \A i \in 1..(FirstUnresolvedFunction(fs) - 1) :
               LET j == FirstUnresolvedParam(fs[i].params)
               IN  j <= Len(fs[i].params)
                   => /\ pe_pc = "returned"
                      /\ pe_out.kind = "pe"
                      /\ Len(pe_out.pe.functions) >= i
                      /\ CarriesParams(pe_out.pe.functions[i], fs[i].params, j - 1)
                      /\ (i + 1 < FirstUnresolvedFunction(fs)
                            => Len(pe_out.pe.functions) >= i + 1)

\* a function that kept its first param (pos 0), lost the unmatched second and
\* the third, and was followed by the next function
C9_Witness ==
    /\ pe_pc = "returned"
    /\ pe_in.xml.form = "ok"
    /\ Len(pe_in.xml.functions) = 2
    /\ Len(pe_in.xml.functions[1].params) = 3
    /\ FirstUnresolvedParam(pe_in.xml.functions[1].params) = 2
    /\ ParamPositions(pe_in.xml.functions[1].params[3].id) # {}
    /\ pe_out.kind = "pe"
    /\ Len(pe_out.pe.functions) = 2
    /\ Len(pe_out.pe.functions[1].parameters) = 1
    /\ pe_out.pe.functions[1].parameters[1].pos = 0

----------------------------------------------------------------------------
(* Properties of translateVistrail *)

\* the translated operation of the old operation oi of action ai
NewOp(ai, oi) == vistrail.actions[ai][oi]

\* the port spec has one item per entry of the signature string
HasItemPerEntry(new, old) ==
    /\ new.kind = "portSpec"
    /\ Len(new.portSpecItems) = NumEntries(old.sigstring)

\* C4: the override of field data is in the translate dict for DBAdd (DBChange)
\* exactly while an add (change) operation whose what is portSpec is being
\* translated; the port spec of such an operation has gone through
\* update_portSpec (one item per entry of its signature string), and every
\* other operation is translated with no such override in the dict.
C4_PortSpecOverrideScoped ==
    vt_pc # "raised"
    => /\ \A cls \in {"DBAdd", "DBChange"} :
              (cls \in DOMAIN translate_dict)
              <=> (vt_pc = "op_override" /\ IsPortSpecOp(CurrentOp)
                   /\ OpClass(CurrentOp) = cls)
       /\ "DBDelete" \notin DOMAIN translate_dict
       /\ \A ai \in DOMAIN vistrail.actions : \A oi \in DOMAIN vistrail.actions[ai] :
              LET old == vt_old.actions[ai][oi]
                  new == NewOp(ai, oi)
              IN  /\ new.vtType = old.vtType
                  /\ new.what = old.what
                  /\ IsPortSpecOp(old) => HasItemPerEntry(new.data, old.data)
                  /\ old.data.kind = "module"
                       => /\ new.data.kind = "module"
                          /\ Len(new.data.portSpecs) = Len(old.data.portSpecs)
                          /\ \A q \in DOMAIN old.data.portSpecs :
                                 HasItemPerEntry(new.data.portSpecs[q],
                                                 old.data.portSpecs[q])
                  /\ old.data.kind = "none" => new.data = NoData

\* an action whose add of a port spec was translated through update_portSpec
\* and whose add of a module was then translated with the override gone
C4_Witness ==
    /\ vt_pc = "done"
    /\ \E ai \in DOMAIN vistrail.actions :
           /\ Len(vistrail.actions[ai]) >= 2
           /\ IsPortSpecOp(vt_old.actions[ai][1])
           /\ vt_old.actions[ai][1].vtType = "add"
           /\ Len(NewOp(ai, 1).data.portSpecItems) = 2
           /\ vt_old.actions[ai][2].vtType = "add"
           /\ vt_old.actions[ai][2].what = "module"
           /\ NewOp(ai, 2).data.kind = "module"

IsVistrailVars(a) == a.key = "__vistrail_vars__"
IsParamExp(a) == a.key = "__paramexp__"

\* the number of entries of the first n annotations of anns
RECURSIVE EntriesBefore(_, _)
EntriesBefore(anns, n) ==
    IF n = 0 THEN 0 ELSE EntriesBefore(anns, n - 1) + Cardinality(anns[n].value)

\* C5: a __vistrail_vars__ annotation whose mapping has n entries adds exactly
\* n VistrailVariables, one per entry, each with the name, the uuid, the
\* package, module and namespace and the value of its entry; the uuid is the
\* one given in the entry.
C5_VistrailVarsPromoted ==
    vt_pc = "done"
    => LET va == SelectSeq(vt_old.annotations, IsVistrailVars)
           vv == vistrail.vistrailVariables
       IN  /\ Len(vv) = EntriesBefore(va, Len(va))
           /\ \A i \in DOMAIN va :
                  {vv[EntriesBefore(va, i - 1) + k] : k \in 1..Cardinality(va[i].value)}
                  = {[name |-> item.name, uuid |-> item.data[1],
                      package |-> item.data[2][1], module |-> item.data[2][2],
                      namespace |-> item.data[2][3], value |-> item.data[3]] :
                         item \in va[i].value}

\* two __vistrail_vars__ annotations, of two entries and of one, gave three variables
C5_Witness ==
    /\ vt_pc = "done"
    /\ \E i, j \in DOMAIN vt_old.annotations :
           /\ IsVistrailVars(vt_old.annotations[i])
           /\ IsVistrailVars(vt_old.annotations[j])
           /\ Cardinality(vt_old.annotations[i].value) = 2
           /\ Cardinality(vt_old.annotations[j].value) = 1
    /\ Len(vistrail.vistrailVariables) = 3

\* C6 as stated: no translated annotation has a reserved key, and every
\* annotation with another key is still there.
C6_NoReservedKeyRemains ==
    vt_pc = "done"
    => /\ \A i \in DOMAIN vistrail.annotations :
              vistrail.annotations[i].key \notin {"__vistrail_vars__", "__paramexp__"}
       /\ \A i \in DOMAIN vt_old.annotations :
              vt_old.annotations[i].key \notin {"__vistrail_vars__", "__paramexp__"}
              => \E q \in DOMAIN vistrail.annotations :
                     vistrail.annotations[q] = vt_old.annotations[i]

\* C6: each collection loses the reserved key it is scanned for and nothing
\* else: the translated annotations are the old ones without those keyed
\* __vistrail_vars__, the translated actionAnnotations the old ones without
\* those keyed __paramexp__, in order and unchanged.
C6_ReservedKeyConsumedWhereScanned ==
    vt_pc = "done"
    => /\ vistrail.annotations
              = SelectSeq(vt_old.annotations, LAMBDA a : ~IsVistrailVars(a))
       /\ vistrail.actionAnnotations
              = SelectSeq(vt_old.actionAnnotations, LAMBDA a : ~IsParamExp(a))

\* both reserved keys among the annotations and __paramexp__ among the action
\* annotations: only the __paramexp__ annotation is left, nothing else
C6_Witness ==
    /\ vt_pc = "done"
    /\ \E i, j \in DOMAIN vt_old.annotations :
           IsVistrailVars(vt_old.annotations[i]) /\ IsParamExp(vt_old.annotations[j])
    /\ \E i \in DOMAIN vt_old.actionAnnotations : IsParamExp(vt_old.actionAnnotations[i])
    /\ Len(vistrail.annotations) = 1
    /\ IsParamExp(vistrail.annotations[1])
    /\ vistrail.actionAnnotations = <<>>

HasUsableText(aa) == aa.value.form = "ok"

\* C7 as stated: with a __paramexp__ action annotation whose value is empty or
\* unparseable (and nothing else that could raise: no operation, no other
\* __paramexp__ annotation), translateVistrail completes, the annotation adds
\* no ParameterExploration and no None, and the other annotations are translated.
C7_EmptyParamExpSkipped ==
    (/\ vt_pc \in {"done", "raised"}
     /\ vt_old.actions = <<>>
     /\ \A i \in DOMAIN vt_old.actionAnnotations :
            IsParamExp(vt_old.actionAnnotations[i])
            => ~HasUsableText(vt_old.actionAnnotations[i])
     /\ \E i \in DOMAIN vt_old.actionAnnotations : IsParamExp(vt_old.actionAnnotations[i]))
    => /\ vt_pc = "done"
       /\ vistrail.parameter_explorations = <<>>
       /\ vistrail.actionAnnotations
              = SelectSeq(vt_old.actionAnnotations, LAMBDA a : ~IsParamExp(a))

\* every <function> and every <param> element of the document resolves
AllResolve(fs) ==
    /\ FirstUnresolvedFunction(fs) = Len(fs) + 1
    /\ \A i \in DOMAIN fs : FirstUnresolvedParam(fs[i].params) = Len(fs[i].params) + 1

\* C10: each __paramexp__ action annotation with a well-formed value yields
\* exactly one ParameterExploration, with the action_id of the annotation; when
\* every <function> and <param> element resolves, it carries one PEFunction per
\* <function> (module id and port name of the pipeline function) and one
\* PEParameter per <param>, in document order.
\* (Stated for documents in which value is bound whenever it is read.)
C10_OneExplorationPerAnnotation ==
    vt_pc = "done"
    => LET ok  == SelectSeq(vt_old.actionAnnotations,
                            LAMBDA a : IsParamExp(a) /\ HasUsableText(a))
           pes == SelectSeq(vistrail.parameter_explorations, LAMBDA x : x # PyNone)
       IN  /\ Len(pes) = Len(ok)
           /\ \A i \in DOMAIN ok :
                  LET fs == ok[i].value.functions
                      pe == pes[i].pe
                  IN  /\ pe.action_id = ok[i].action_id
                      /\ (AllResolve(fs) /\ ValueAlwaysBound(fs))
                           => /\ CarriesFunctions(pe, fs, Len(fs))
                              /\ \A f \in DOMAIN fs :
                                     CarriesParams(pe.functions[f], fs[f].params,
                                                   Len(fs[f].params))

\* two fully resolving annotations of different actions gave two
\* ParameterExplorations of two PEFunctions each, the first with two PEParameters
C10_Witness ==
    /\ vt_pc = "done"
    /\ Len(vt_old.actionAnnotations) >= 2
    /\ \A i \in 1..2 :
           /\ IsParamExp(vt_old.actionAnnotations[i])
           /\ HasUsableText(vt_old.actionAnnotations[i])
           /\ AllResolve(vt_old.actionAnnotations[i].value.functions)
    /\ vt_old.actionAnnotations[1].action_id # vt_old.actionAnnotations[2].action_id
    /\ Len(vistrail.parameter_explorations) = 2
    /\ \A i \in 1..2 :
           /\ vistrail.parameter_explorations[i].pe.action_id
                  = vt_old.actionAnnotations[i].action_id
           /\ Len(vistrail.parameter_explorations[i].pe.functions) = 2
           /\ Len(vistrail.parameter_explorations[i].pe.functions[1].parameters) = 2

\* C29: a <function> element counts as resolved only when the owning module
\* id and the name of the matching pipeline function are both true values:
\* when the first element that does not count as resolved has an id that
\* matches (its module has id 0, or its name is empty), the functions stop
\* there, the call returns the PEFunctions of the elements before it; and
\* every emitted PEFunction has the module id and the name, neither 0 nor
\* empty, of the last pipeline function with its id in scan order.
\* (The first part is stated for calls in which value is bound whenever it
\* is read.)
C29_ResolvedNeedsTrueIdAndName ==
    (pe_pc # "call" /\ pe_in.xml.form = "ok")
    => LET fs == pe_in.xml.functions
           k  == FirstUnresolvedFunction(fs)
       IN  /\ (k <= Len(fs) /\ IdMatches(fs[k].id) /\ ValueAlwaysBound(fs))
                => /\ pe_pc = "returned"
                   /\ pe_out.kind = "pe"
                   /\ CarriesFunctions(pe_out.pe, fs, k - 1)
           /\ (pe_pc = "returned" /\ pe_out.kind = "pe")
                => \A i \in DOMAIN pe_out.pe.functions :
                       /\ pe_out.pe.functions[i].module_id # 0
                       /\ pe_out.pe.functions[i].port_name # ""
                       /\ pe_out.pe.functions[i].module_id = OwnerId(fs[i].id)
                       /\ pe_out.pe.functions[i].port_name = PortName(fs[i].id)

\* three <function> elements: the first has the id that two pipeline
\* functions share, the second the id of the function of module 0, the third
\* resolves; only the first was emitted, with the module and name of the
\* last of the two
C29_Witness ==
    /\ pe_pc = "returned"
    /\ pe_in.xml.form = "ok"
    /\ Len(pe_in.xml.functions) = 3
    /\ pe_in.xml.functions[1].id = 5
    /\ pe_in.xml.functions[2].id = 3
    /\ CountsAsResolved(pe_in.xml.functions[3].id)
    /\ pe_out.kind = "pe"
    /\ Len(pe_out.pe.functions) = 1
    /\ pe_out.pe.functions[1].module_id = 2
    /\ pe_out.pe.functions[1].port_name = "SetD"

\* the new operations are the old ones of the action, up to n of them, of the
\* same kind and in the same order
SameOperations(old_ops, new_ops, n) ==
    /\ Len(new_ops) = n
    /\ \A i \in 1..n :
           /\ new_ops[i].vtType = old_ops[i].vtType
           /\ new_ops[i].what = old_ops[i].what

\* C22: translateVistrail keeps the actions in order and, in each action, the
\* operations: while the operations are translated the new actions hold the
\* old operations before the cursor, and once they are translated every new
\* action has one operation per old add / change / delete operation, of the
\* same kind, in the same order.
C22_OperationOrderKept ==
    /\ vt_pc \in {"op", "op_override"}
         => /\ Len(vistrail.actions) \in {vt_cur[1] - 1, vt_cur[1]}
            /\ \A ai \in 1..Len(vistrail.actions) :
                   SameOperations(vt_old.actions[ai], vistrail.actions[ai],
                                  IF ai < vt_cur[1] THEN Len(vt_old.actions[ai])
                                  ELSE vt_cur[2] - 1)
    /\ vt_pc \in {"annotations", "actionAnnotations", "attach", "done"}
         => /\ Len(vistrail.actions) = Len(vt_old.actions)
            /\ \A ai \in 1..Len(vt_old.actions) :
                   SameOperations(vt_old.actions[ai], vistrail.actions[ai],
                                  Len(vt_old.actions[ai]))

\* a translated vistrail of two actions, the second with a delete and then
\* an add of a port spec
C22_Witness ==
    /\ vt_pc = "done"
    /\ Len(vt_old.actions) = 2
    /\ Len(vistrail.actions[2]) = 2
    /\ vistrail.actions[2][1].vtType = "delete"
    /\ vistrail.actions[2][2].vtType = "add"
    /\ vistrail.actions[2][2].what = "portSpec"
    /\ vistrail.actions[1][1].vtType = "change"

----------------------------------------------------------------------------
(* Values of the emitted PEParameters *)

\* the value the interp attribute of <param> element p asks for
ValueFor(p) ==
    CASE p.interp = "Linear Interpolation" -> "[" \o p.min \o ", " \o p.max \o "]"
      [] p.interp = "RGB Interpolation" -> "[\"" \o p.min \o "\", \"" \o p.max \o "\"]"
      [] p.interp = "HSV Interpolation" -> "[\"" \o p.min \o "\", \"" \o p.max \o "\"]"
      [] p.interp = "List" -> p.values
      [] p.interp = "User-defined Function" -> p.code

HandledInterpolators ==
    {"Linear Interpolation", "RGB Interpolation", "HSV Interpolation", "List",
     "User-defined Function"}

\* C11: the value of an emitted PEParameter whose interp is one of the five
\* handled kinds is built from the attributes of its own <param> element alone
\* ("[min, max]", '["min", "max"]', values, code), and is_alias of an emitted
\* PEFunction is 1 exactly when the alias attribute is the text True, else 0.
C11_ValueByInterpolator ==
    (pe_pc = "returned" /\ pe_out.kind = "pe")
    => \A i \in DOMAIN pe_out.pe.functions :
           LET f == pe_in.xml.functions[i]
               g == pe_out.pe.functions[i]
           IN  /\ g.is_alias = (IF f.alias = "True" THEN 1 ELSE 0)
               /\ \A q \in DOMAIN g.parameters :
                      f.params[q].interp \in HandledInterpolators
                      => g.parameters[q].value = ValueFor(f.params[q])

\* an alias function whose three parameters are linear, colour and list
C11_Witness ==
    /\ pe_pc = "returned"
    /\ pe_out.kind = "pe"
    /\ Len(pe_out.pe.functions) >= 1
    /\ pe_in.xml.functions[1].alias = "True"
    /\ pe_out.pe.functions[1].is_alias = 1
    /\ Len(pe_out.pe.functions[1].parameters) = 3
    /\ pe_out.pe.functions[1].parameters[1].value = "[lo1, hi1]"
    /\ pe_out.pe.functions[1].parameters[2].value = "[\"lo1\", \"hi1\"]"
    /\ pe_out.pe.functions[1].parameters[3].value = "[v1]"

----------------------------------------------------------------------------
(* translateStartup *)

\* Python None where a name, a conversion or a rule table is expected
NoValue == "None"

\* d[k] = v and del d[k] on a dict; {} is <<>>
setitem(d, k, v) == [x \in DOMAIN d \cup {k} |-> IF x = k THEN v ELSE d[x]]
delitem(d, k) == [x \in DOMAIN d \ {k} |-> d[x]]

\* the three forms of a rule of lines 342-375: a bare new name, None, a tuple
Rename(new_name) ==
    [form |-> "name", new_name |-> new_name, conv_f |-> NoValue, inner_t |-> NoValue]
DeleteRule ==
    [form |-> "None", new_name |-> NoValue, conv_f |-> NoValue, inner_t |-> NoValue]
TupleRule(new_name, conv_f, inner_t) ==
    [form |-> "tuple", new_name |-> new_name, conv_f |-> conv_f, inner_t |-> inner_t]

\* lines 342-375: the rule table t
t ==
    [alwaysShowDebugPopup |-> Rename("showDebugPopups"),
     autosave |-> Rename("autoSave"),
     errorOnConnectionTypeerror |-> Rename("showConnectionErrors"),
     errorOnVariantTypeerror |-> Rename("showVariantErrors"),
     interactiveMode |-> TupleRule("batch", "invert_bool", NoValue),
     logFile |-> TupleRule("logDirectory", "use_dirname", NoValue),
     logger |-> DeleteRule,
     maxMemory |-> DeleteRule,
     minMemory |-> DeleteRule,
     nologger |-> TupleRule("executionLog", "invert_bool", NoValue),
     pythonPrompt |-> DeleteRule,
     reviewMode |-> DeleteRule,
     shell |-> TupleRule("shell", NoValue, "shell"),
     showMovies |-> DeleteRule,
     showSpreadsheetOnly |-> TupleRule("showWindow", "invert_bool", NoValue),
     spreadsheetDumpCells |-> Rename("outputDirectory"),
     upgradeOn |-> Rename("upgrades"),
     useCache |-> Rename("cache"),
     verbosenessLevel |-> Rename("debugLevel"),
     webRepositoryLogin |-> Rename("webRespositoryUser"),
     evolutionGraph |-> Rename("withVersionTree"),
     workflowGraph |-> Rename("withWorkflow"),
     workflowInfo |-> Rename("outputDirectory"),
     executeWorkflows |-> Rename("execute"),
     abstractionsDirectory |-> Rename("subworkflowsDirectory")]

\* lines 355-356: the rule table inside the rule of shell
shell_t == [font_face |-> Rename("fontFace"), font_size |-> Rename("fontSize")]

\* the rule table a value of t_dict['__startup_translate__'] stands for
RuleTable(name) == IF name = "shell" THEN shell_t ELSE t

\* str.lower() on the texts the configurations hold
lower(text) ==
    CASE text \in {"true", "True", "TRUE"} -> "true"
      [] text \in {"false", "False"} -> "false"
      [] OTHER -> text

\* unicode(b) of a bool
unicode_bool(b) == IF b THEN "True" ELSE "False"

\* invert_value without the lower() of line 333
invert_value_case_sensitive(text) == unicode_bool(~(text = "true"))

\* lines 332-333
invert_value(text) == unicode_bool(~(lower(text) = "true"))

\* lines 338-339: os.path.dirname on the texts the configurations hold
get_dirname(text) ==
    CASE text = "/home/u/.vistrails/vistrails.log" -> "/home/u/.vistrails"
      [] text = "/vistrails.log" -> "/"
      [] OTHER -> ""

\* the class and the inner function that the conversion hands to change_value
\* (lines 334 and 340)
ConvClass(conv_f) == IF conv_f = "invert_bool" THEN "DBConfigBool" ELSE "DBConfigStr"
ConvInner(conv_f) == IF conv_f = "invert_bool" THEN "invert_value" ELSE "get_dirname"
ApplyInner(inner_f, text) ==
    IF inner_f = "invert_value" THEN invert_value(text) ELSE get_dirname(text)

\* a configuration value: a DBConfigStr / DBConfigBool with its text, or a
\* DBConfiguration with its keys
LeafValue(type, text) == [type |-> type, text |-> text, config_keys |-> <<>>]
ConfigValue(config_keys) == [type |-> "config", text |-> "", config_keys |-> config_keys]

\* lines 316-321: t_dict[cls_name]['value'] = conv_f, the class entry made
\* when it is missing
push_value_override(t_dict, cls_name, conv_f) ==
    setitem(t_dict, cls_name,
            setitem(IF cls_name \in DOMAIN t_dict THEN t_dict[cls_name] ELSE <<>>,
                    "value", conv_f))

\* lines 317-319: old_t_value
saved_value_override(t_dict, cls_name) ==
    IF cls_name \in DOMAIN t_dict /\ "value" \in DOMAIN t_dict[cls_name]
    THEN t_dict[cls_name]["value"] ELSE NoValue

\* lines 326-328: the class entry after the restore, dropped when empty
drop_if_empty(t_dict, name) ==
    IF DOMAIN t_dict[name] = {} THEN delitem(t_dict, name) ELSE t_dict

\* pop_value_override without lines 327-328: the emptied class entry stays
pop_value_override_keep_empty(t_dict, cls_name, old_t_value) ==
    setitem(t_dict, cls_name,
            IF old_t_value # NoValue
            THEN setitem(t_dict[cls_name], "value", old_t_value)
            ELSE delitem(t_dict[cls_name], "value"))

\* lines 324-328: del t_dict[cls_name]['value'], the old value put back
pop_value_override(t_dict, cls_name, old_t_value) ==
    drop_if_empty(
        setitem(t_dict, cls_name,
                IF old_t_value # NoValue
                THEN setitem(t_dict[cls_name], "value", old_t_value)
                ELSE delitem(t_dict[cls_name], "value")),
        cls_name)

\* line 323: cls.update_version(_key.db_value, t_dict) with the override of
\* field value in t_dict: a new value of class cls whose text is the inner
\* function of the old one; a DBConfiguration has no db_value and the inner
\* function raises
converted_value(cls_name, old_value, t_dict) ==
    IF old_value.type = "config"
    THEN [raised |-> TRUE, value |-> old_value]
    ELSE [raised |-> FALSE,
          value |-> LeafValue(IF cls_name = "DBConfigBool" THEN "bool" ELSE "str",
                              ApplyInner(t_dict[cls_name]["value"], old_value.text))]

\* one entry of the record of a translation: the key, the operation, the rule
\* table matched against, and t_dict before and after the operation
TraceEntry(key, where, before, after) ==
    [id |-> key.id, where |-> where, cur_t |-> before["__startup_translate__"],
     before |-> before, after |-> after]

\* the result of change_value around the result r of line 323
changed_value(key, r, before, after) ==
    [raised |-> r.raised, value |-> r.value, t_dict |-> after,
     trace |-> <<TraceEntry(key, "change_value", before, after)>>]

\* lines 314-329.  Result: raised, the new value, t_dict after the call
change_value(cls_name, conv_f, _key, t_dict) ==
    changed_value(_key,
        converted_value(cls_name, _key.value,
                        push_value_override(t_dict, cls_name, conv_f)),
        t_dict,
        pop_value_override(push_value_override(t_dict, cls_name, conv_f),
                           cls_name, saved_value_override(t_dict, cls_name)))

\* key_rule that takes a None rule for no rule
key_rule_keep_deleted(key, cur_t) ==
    IF key.name \in DOMAIN RuleTable(cur_t)
    THEN [to_delete |-> FALSE,
          new_name |-> RuleTable(cur_t)[key.name].new_name,
          conv_f |-> RuleTable(cur_t)[key.name].conv_f,
          inner_t |-> RuleTable(cur_t)[key.name].inner_t]
    ELSE [to_delete |-> FALSE, new_name |-> NoValue, conv_f |-> NoValue,
          inner_t |-> NoValue]

\* lines 386-402: to_delete, new_name, conv_f and inner_t of the key under the
\* rule table cur_t
key_rule(key, cur_t) ==
    IF key.name \in DOMAIN RuleTable(cur_t)
    THEN [to_delete |-> RuleTable(cur_t)[key.name].form = "None",
          new_name |-> RuleTable(cur_t)[key.name].new_name,
          conv_f |-> RuleTable(cur_t)[key.name].conv_f,
          inner_t |-> RuleTable(cur_t)[key.name].inner_t]
    ELSE [to_delete |-> FALSE, new_name |-> NoValue, conv_f |-> NoValue,
          inner_t |-> NoValue]

\* lines 407-411: key_t_dict
key_t_dict(key, rule) ==
    [x \in (IF rule.new_name # NoValue /\ rule.new_name # key.name
            THEN {"name"} ELSE {})
           \cup (IF rule.conv_f # NoValue THEN {"value"} ELSE {}) |->
        IF x = "name" THEN rule.new_name ELSE rule.conv_f]

\* lines 412-424: old_t_name (field "name") or old_t_value (field "value")
saved_key_override(t_dict, ktd, field) ==
    IF DOMAIN ktd # {} /\ "DBConfigKey" \in DOMAIN t_dict
       /\ field \in DOMAIN t_dict["DBConfigKey"]
    THEN t_dict["DBConfigKey"][field] ELSE NoValue

\* lines 414-424: the overrides of the key put into t_dict['DBConfigKey']
install_key_overrides(t_dict, ktd) ==
    IF DOMAIN ktd = {} THEN t_dict
    ELSE IF "DBConfigKey" \in DOMAIN t_dict
    THEN setitem(t_dict, "DBConfigKey",
             [x \in (DOMAIN t_dict["DBConfigKey"] \ {"name", "value"})
                    \cup DOMAIN ktd |->
                 IF x \in DOMAIN ktd THEN ktd[x] ELSE t_dict["DBConfigKey"][x]])
    ELSE setitem(t_dict, "DBConfigKey", ktd)

\* one of lines 436-439: an old override put back when there was one
put_back(d, field, old) == IF old # NoValue THEN setitem(d, field, old) ELSE d

\* restore_key_overrides without lines 436-439
restore_key_overrides_no_put_back(t_dict, ktd, old_t_name, old_t_value) ==
    IF DOMAIN ktd = {} THEN t_dict
    ELSE drop_if_empty(
             setitem(t_dict, "DBConfigKey",
                     delitem(delitem(t_dict["DBConfigKey"], "name"), "value")),
             "DBConfigKey")

\* lines 431-441: the overrides of the key taken out, the old ones put back
restore_key_overrides(t_dict, ktd, old_t_name, old_t_value) ==
    IF DOMAIN ktd = {} THEN t_dict
    ELSE drop_if_empty(
             setitem(t_dict, "DBConfigKey",
                     put_back(put_back(delitem(delitem(t_dict["DBConfigKey"], "name"),
                                               "value"),
                                       "name", old_t_name),
                              "value", old_t_value)),
             "DBConfigKey")

\* with_rule_table that leaves the rule table as it is
with_rule_table_unchanged(t_dict, inner_t, table) == t_dict

\* lines 425-426 and 429-430: t_dict['__startup_translate__'] = table when the
\* rule has an inner table
with_rule_table(t_dict, inner_t, table) ==
    IF inner_t # NoValue THEN setitem(t_dict, "__startup_translate__", table)
    ELSE t_dict

\* the name DBConfigKey.update_version gives the new key: the override of
\* field name (update_key_name, lines 377-380) when t_dict holds one
new_key_name(key, t_dict) ==
    IF "DBConfigKey" \in DOMAIN t_dict /\ "name" \in DOMAIN t_dict["DBConfigKey"]
    THEN t_dict["DBConfigKey"]["name"] ELSE key.name

\* the new key around the result r of translating the value of the key
new_config_key(key, name, r) ==
    [raised |-> r.raised,
     key |-> [id |-> key.id, name |-> name, value |-> r.value],
     t_dict |-> r.t_dict,
     trace |-> r.trace]

\* the new DBConfiguration value around the result r of update_config_keys
new_configuration(r) ==
    [raised |-> r.raised, value |-> ConfigValue(r.new_keys), t_dict |-> r.t_dict,
     trace |-> r.trace]

RECURSIVE update_config_keys(_, _)
RECURSIVE update_version_key(_, _)
RECURSIVE translate_key(_, _, _)
RECURSIVE update_config_keys_loop(_, _, _)

\* DBConfigKey.update_version(key, t_dict): the name and the value by the
\* overrides t_dict holds for DBConfigKey; without an override of value, a
\* DBConfiguration is translated by update_config_keys (the override of
\* DBConfiguration.config_keys) and another value is copied
update_version_key(key, t_dict) ==
    new_config_key(key, new_key_name(key, t_dict),
        IF "DBConfigKey" \in DOMAIN t_dict /\ "value" \in DOMAIN t_dict["DBConfigKey"]
        THEN change_value(ConvClass(t_dict["DBConfigKey"]["value"]),
                          ConvInner(t_dict["DBConfigKey"]["value"]), key, t_dict)
        ELSE IF key.value.type = "config"
        THEN new_configuration(update_config_keys(key.value.config_keys, t_dict))
        ELSE [raised |-> FALSE, value |-> key.value, t_dict |-> t_dict, trace |-> <<>>])

\* lines 425-441: what is left of the pass of the loop after
\* DBConfigKey.update_version has given r
after_update_version(key, cur_t, before, r) ==
    [raised |-> r.raised,
     new_keys |-> <<r.key>>,
     t_dict |-> restore_key_overrides(
                    with_rule_table(r.t_dict, key_rule(key, cur_t).inner_t, cur_t),
                    key_t_dict(key, key_rule(key, cur_t)),
                    saved_key_override(before, key_t_dict(key, key_rule(key, cur_t)),
                                       "name"),
                    saved_key_override(before, key_t_dict(key, key_rule(key, cur_t)),
                                       "value")),
     trace |-> r.trace]

\* lines 385-441: one pass of the loop of update_config_keys
translate_key(key, cur_t, t_dict) ==
    IF key_rule(key, cur_t).to_delete
    THEN [raised |-> FALSE, new_keys |-> <<>>, t_dict |-> t_dict, trace |-> <<>>]
    ELSE after_update_version(key, cur_t, t_dict,
             update_version_key(key,
                 with_rule_table(
                     install_key_overrides(t_dict, key_t_dict(key, key_rule(key, cur_t))),
                     key_rule(key, cur_t).inner_t,
                     key_rule(key, cur_t).inner_t)))

\* new_keys.append and the record of the pass: st is the loop state, r the
\* result of the pass for key
append_key(st, key, r) ==
    [raised |-> r.raised,
     new_keys |-> st.new_keys \o r.new_keys,
     t_dict |-> r.t_dict,
     trace |-> st.trace \o r.trace
               \o <<TraceEntry(key, "update_config_keys", st.t_dict, r.t_dict)>>]

\* lines 385-442: the loop over the keys that are left
update_config_keys_loop(config_keys, cur_t, st) ==
    IF config_keys = <<>> \/ st.raised THEN st
    ELSE update_config_keys_loop(Tail(config_keys), cur_t,
             append_key(st, Head(config_keys),
                        translate_key(Head(config_keys), cur_t, st.t_dict)))

\* lines 382-442.  Result: raised, new_keys, t_dict after the call, and the
\* record of the translation
update_config_keys(config_keys, t_dict) ==
    update_config_keys_loop(config_keys, t_dict["__startup_translate__"],
        [raised |-> FALSE, new_keys |-> <<>>, t_dict |-> t_dict, trace |-> <<>>])

\* lines 446-448: translate_dict
StartupTranslateDict ==
    ("DBConfiguration" :> [config_keys |-> "update_config_keys"])
    @@ ("__startup_translate__" :> "t")

----------------------------------------------------------------------------
(* Inputs of translateStartup *)

ConfigKey(name, value) == [id |-> 0, name |-> name, value |-> value]

\* the keys get their ids from where they are in the document
RECURSIVE number_keys(_, _)
number_keys(config_keys, prefix) ==
    [i \in 1..Len(config_keys) |->
        [id |-> 10 * prefix + i,
         name |-> config_keys[i].name,
         value |-> IF config_keys[i].value.type = "config"
                   THEN ConfigValue(number_keys(config_keys[i].value.config_keys,
                                                10 * prefix + i))
                   ELSE config_keys[i].value]]

\* keys that follow the first key of a top-level configuration
SiblingKeys ==
    {ConfigKey("nologger", LeafValue("bool", "true")),
     ConfigKey("showMovies", LeafValue("bool", "false")),
     ConfigKey("font_face", LeafValue("str", "arial")),
     ConfigKey("userKey", LeafValue("str", "text")),
     ConfigKey("workflowInfo", LeafValue("bool", "true"))}

LeafKeys ==
    SiblingKeys \cup
    {ConfigKey("nologger", LeafValue("bool", "TRUE")),
     ConfigKey("nologger", LeafValue("bool", "False")),
     ConfigKey("interactiveMode", LeafValue("bool", "no")),
     ConfigKey("autosave", LeafValue("bool", "true")),
     ConfigKey("logFile", LeafValue("str", "/home/u/.vistrails/vistrails.log")),
     ConfigKey("shell", LeafValue("str", "text")),
     ConfigKey("spreadsheetDumpCells", LeafValue("str", "/tmp/cells"))}

\* keys of a configuration that a key holds; one holds a configuration itself
InnerKeys ==
    {ConfigKey("font_face", LeafValue("str", "arial")),
     ConfigKey("showMovies", LeafValue("bool", "false")),
     ConfigKey("nologger", LeafValue("bool", "true")),
     ConfigKey("userKey", LeafValue("str", "text")),
     ConfigKey("autosave", ConfigValue(<<ConfigKey("userKey", LeafValue("str", "text")),
                                         ConfigKey("font_size", LeafValue("str", "9"))>>))}

\* keys that hold a configuration: under the rule with the inner table, under
\* a rule that renames, under no rule, and under a rule that converts
HolderKeys ==
    {ConfigKey(name, ConfigValue(inner)) :
        name \in {"shell", "autosave", "userKey"},
        inner \in SeqsUpTo(InnerKeys, MaxInnerKeys)}
    \cup {ConfigKey("nologger", ConfigValue(<<>>))}

OldConfigurations ==
    {<<>>} \cup
    {number_keys(<<first>> \o rest, 0) :
        first \in LeafKeys \cup HolderKeys,
        rest \in SeqsUpTo(SiblingKeys, MaxKeys - 1)}

OldStartups ==
    [version : {"1.0.2", "1.0.3"}, configuration : OldConfigurations]

InitStartup ==
    /\ id_scope = NoScope
    /\ st_pc = "start"
    /\ st_old \in OldStartups
    /\ st_dict = <<>>
    /\ st_trace = <<>>
    /\ startup = [version |-> "None", configuration |-> <<>>]
    /\ IdlePortSpec
    /\ IdlePE
    /\ IdleVistrail
    /\ IdleDrivers
    /\ IdleWhile
    /\ IdleLocator

\* line 450: db_version = '1.0.3' with the text appended to the old tag
set_version_appended(obj) == [obj EXCEPT !.version = @ \o "1.0.3"]

\* lines 277, 290, 296, 305 and 450: obj.db_version = '1.0.3'
set_version(obj) == [obj EXCEPT !.version = "1.0.3"]

\* lines 446-448: translate_dict and the new DBStartup
StartTranslateStartup ==
    /\ st_pc = "start"
    /\ st_dict' = StartupTranslateDict
    /\ startup' = [version |-> "None", configuration |-> <<>>]
    /\ st_pc' = "update_version"
    /\ UNCHANGED <<id_scope, st_old, st_trace, ps_vars, pe_vars, vt_vars, dr_vars, wh_vars, lc_vars>>

\* line 449: DBStartup.update_version copies the old startup; its
\* configuration goes through update_config_keys
UpdateVersionStartup ==
    /\ st_pc = "update_version"
    /\ \E r \in {update_config_keys(st_old.configuration, st_dict)} :
           /\ st_dict' = r.t_dict
           /\ st_trace' = r.trace
           /\ IF r.raised
              THEN st_pc' = "raised" /\ UNCHANGED startup
              ELSE /\ st_pc' = "version"
                   /\ startup' = [version |-> st_old.version,
                                  configuration |-> r.new_keys]
    /\ UNCHANGED <<id_scope, st_old, ps_vars, pe_vars, vt_vars, dr_vars, wh_vars, lc_vars>>

\* lines 450-451
ReturnStartup ==
    /\ st_pc = "version"
    /\ startup' = set_version(startup)
    /\ st_pc' = "done"
    /\ UNCHANGED <<id_scope, st_old, st_dict, st_trace, ps_vars, pe_vars, vt_vars,
                   dr_vars, wh_vars, lc_vars>>

NextStartup ==
    \/ StartTranslateStartup
    \/ UpdateVersionStartup
    \/ ReturnStartup

SpecStartup == InitStartup /\ [][NextStartup]_vars

----------------------------------------------------------------------------
(* Properties of translateStartup *)

\* the rule of the name in the table is the delete marker
DeleteMarked(name, table) ==
    name \in DOMAIN RuleTable(table) /\ RuleTable(table)[name].form = "None"

\* the keys of a configuration that the table does not delete
Kept(config_keys, table) ==
    SelectSeq(config_keys, LAMBDA k : ~DeleteMarked(k.name, table))

\* the rule table for the configuration that the key of this name holds
TableInside(name, table) ==
    IF name \in DOMAIN RuleTable(table) /\ RuleTable(table)[name].inner_t # NoValue
    THEN RuleTable(table)[name].inner_t
    ELSE table

\* every old key that is kept, at any depth, with the new key in its place
\* and the rule table of its configuration
RECURSIVE KeyPairs(_, _, _)
KeyPairs(old_keys, new_keys, table) ==
    UNION {{[old |-> Kept(old_keys, table)[i], new |-> new_keys[i], table |-> table]}
           \cup (IF Kept(old_keys, table)[i].value.type = "config"
                    /\ new_keys[i].value.type = "config"
                 THEN KeyPairs(Kept(old_keys, table)[i].value.config_keys,
                               new_keys[i].value.config_keys,
                               TableInside(Kept(old_keys, table)[i].name, table))
                 ELSE {}) :
           i \in 1..Min(Len(Kept(old_keys, table)), Len(new_keys))}

\* the new configuration has one key per kept old key, in order, at every depth
RECURSIVE KeptInOrder(_, _, _)
KeptInOrder(old_keys, new_keys, table) ==
    /\ Len(new_keys) = Len(Kept(old_keys, table))
    /\ \A i \in DOMAIN new_keys :
           /\ new_keys[i].id = Kept(old_keys, table)[i].id
           /\ Kept(old_keys, table)[i].value.type = "config"
                => /\ new_keys[i].value.type = "config"
                   /\ KeptInOrder(Kept(old_keys, table)[i].value.config_keys,
                                  new_keys[i].value.config_keys,
                                  TableInside(Kept(old_keys, table)[i].name, table))

\* C17: a key whose rule in the active rule table is the delete marker is
\* absent from the migrated configuration, and every other key of the old
\* configuration is there exactly once, in the old order, at every depth.
C17_DeleteRuleDropsKey ==
    st_pc = "done" => KeptInOrder(st_old.configuration, startup.configuration, "t")

\* a configuration that lost showMovies at the top and inside the
\* configuration of its first key, which kept its other key
C17_Witness ==
    /\ st_pc = "done"
    /\ Len(st_old.configuration) = 2
    /\ st_old.configuration[1].value.type = "config"
    /\ Len(st_old.configuration[1].value.config_keys) = 2
    /\ st_old.configuration[1].value.config_keys[1].name = "showMovies"
    /\ st_old.configuration[2].name = "showMovies"
    /\ Len(startup.configuration) = 1
    /\ Len(startup.configuration[1].value.config_keys) = 1
    /\ startup.configuration[1].value.config_keys[1].id = 12

InvertNames == {"nologger", "interactiveMode", "showSpreadsheetOnly"}

\* the key is a leaf under an invert rule of the active table
UnderInvertRule(pr) ==
    /\ pr.table = "t"
    /\ pr.old.name \in InvertNames
    /\ pr.old.value.type # "config"

\* C18 as stated: nologger with value "true" becomes executionLog with value
\* "false": the new value is the lower-case text of the negation.
C18_InvertGivesLowerCaseText ==
    st_pc = "done"
    => \A pr \in KeyPairs(st_old.configuration, startup.configuration, "t") :
           UnderInvertRule(pr)
           => /\ pr.new.name = t[pr.old.name].new_name
              /\ pr.new.value.text
                     = (IF lower(pr.old.value.text) = "true" THEN "false" ELSE "true")

\* C18: a key under an invert rule is renamed to the new name of its rule and
\* its value becomes the text of the negation of "the old value, lower-cased,
\* is true", which is "False" or "True"; nologger with value "true" becomes
\* executionLog with value "False", and no key named nologger is left where
\* the table t is active.
C18_InvertRule ==
    st_pc = "done"
    => \A pr \in KeyPairs(st_old.configuration, startup.configuration, "t") :
           /\ UnderInvertRule(pr)
                => /\ pr.new.name = t[pr.old.name].new_name
                   /\ pr.new.value.text
                          = (IF lower(pr.old.value.text) = "true" THEN "False" ELSE "True")
           /\ (pr.old.name = "nologger" /\ pr.old.value.text = "true" /\ pr.table = "t")
                => pr.new.name = "executionLog" /\ pr.new.value.text = "False"
           /\ pr.table = "t" => pr.new.name # "nologger"

\* nologger true at the top and nologger true inside a configuration are now
\* executionLog False
C18_Witness ==
    /\ st_pc = "done"
    /\ \E pr, qr \in KeyPairs(st_old.configuration, startup.configuration, "t") :
           /\ pr.old.name = "nologger" /\ pr.old.value.text = "true" /\ pr.old.id < 10
           /\ pr.new.name = "executionLog" /\ pr.new.value.text = "False"
           /\ qr.old.name = "nologger" /\ qr.old.value.text = "true" /\ qr.old.id > 10
           /\ qr.table = "t"
           /\ qr.new.name = "executionLog" /\ qr.new.value.text = "False"

\* C19: after each key has been translated, by update_config_keys at any
\* depth or by change_value, the translate dict is what it was before that
\* key: the DBConfigKey overrides, the DBConfigBool / DBConfigStr override and
\* the rule table under __startup_translate__.
C19_TranslateDictRestored ==
    st_pc \in {"version", "done"}
    => /\ st_dict = StartupTranslateDict
       /\ \A i \in DOMAIN st_trace : st_trace[i].after = st_trace[i].before

\* a key translated while the override of its holder was in the dict, with a
\* change_value of its own
C19_Witness ==
    /\ st_pc = "done"
    /\ \E i, j \in DOMAIN st_trace :
           /\ st_trace[i].where = "change_value"
           /\ "DBConfigKey" \in DOMAIN st_trace[j].before
           /\ st_trace[j].where = "update_config_keys"
           /\ st_trace[j].id = st_trace[i].id
           /\ st_trace[j].id > 10

\* every old key whose pass of the loop is run, at any depth, with the rule
\* table the claim gives it: the nested table inside shell, the table of the
\* holder elsewhere
RECURSIVE KeysWithTable(_, _)
KeysWithTable(old_keys, table) ==
    UNION {{[key |-> old_keys[i], table |-> table]}
           \cup (IF old_keys[i].value.type = "config"
                    /\ ~DeleteMarked(old_keys[i].name, table)
                 THEN KeysWithTable(old_keys[i].value.config_keys,
                                    IF old_keys[i].name = "shell" /\ table = "t"
                                    THEN "shell" ELSE table)
                 ELSE {}) :
           i \in 1..Len(old_keys)}

\* the name the rule of the table gives the key
NameUnder(name, table) ==
    IF name \in DOMAIN RuleTable(table) THEN RuleTable(table)[name].new_name
    ELSE name

\* C21: the nested rule table of shell is the active table exactly while the
\* subtree of shell is translated: every pass of the loop for a key inside
\* the subtree starts and ends with the nested table active and every other
\* pass, the siblings after shell among them, with the top-level table; the
\* keys inside the subtree are renamed by the nested table only, their leaf
\* values kept, and the top-level keys by the top-level table.
C21_NestedTableScope ==
    st_pc = "done"
    => /\ \A i \in DOMAIN st_trace :
              st_trace[i].where = "update_config_keys"
              => \E x \in KeysWithTable(st_old.configuration, "t") :
                     /\ x.key.id = st_trace[i].id
                     /\ st_trace[i].cur_t = x.table
                     /\ st_trace[i].after["__startup_translate__"] = x.table
       /\ \A pr \in KeyPairs(st_old.configuration, startup.configuration, "t") :
              /\ pr.table = "shell"
                   => /\ pr.new.name = NameUnder(pr.old.name, "shell")
                      /\ pr.old.value.type # "config" => pr.new.value = pr.old.value
              /\ pr.old.id < 10 => pr.new.name = NameUnder(pr.old.name, "t")

\* shell holds font_face and nologger and is followed by nologger: inside,
\* font_face is now fontFace and nologger is kept; the sibling is executionLog
C21_Witness ==
    /\ st_pc = "done"
    /\ Len(st_old.configuration) = 2
    /\ st_old.configuration[1].name = "shell"
    /\ st_old.configuration[1].value.type = "config"
    /\ st_old.configuration[2].name = "nologger"
    /\ Len(startup.configuration) = 2
    /\ Len(startup.configuration[1].value.config_keys) = 2
    /\ startup.configuration[1].value.config_keys[1].name = "fontFace"
    /\ startup.configuration[1].value.config_keys[2].name = "nologger"
    /\ startup.configuration[1].value.config_keys[2].value.text = "true"
    /\ startup.configuration[2].name = "executionLog"

\* the names of the keys are pairwise distinct
UniqueNames(config_keys) ==
    \A i, j \in 1..Len(config_keys) :
        config_keys[i].name = config_keys[j].name => i = j

\* C28 as stated: when the keys of the old configuration are named in the
\* rule table and have pairwise distinct names, the keys of the migrated
\* configuration have pairwise distinct names.
C28_KeyNamesUnique ==
    (/\ st_pc = "done"
     /\ UniqueNames(st_old.configuration)
     /\ \A i \in 1..Len(st_old.configuration) :
            st_old.configuration[i].name \in DOMAIN t)
    => UniqueNames(startup.configuration)

\* the rule of the key in its table neither renames nor converts
NoRenameNoConversion(pr) ==
    \/ pr.old.name \notin DOMAIN RuleTable(pr.table)
    \/ /\ RuleTable(pr.table)[pr.old.name].form # "None"
       /\ RuleTable(pr.table)[pr.old.name].new_name = pr.old.name
       /\ RuleTable(pr.table)[pr.old.name].conv_f = NoValue

\* C20 as stated: a key with no rule in the active table, or a rule that
\* neither renames nor converts, comes out with its own name and value, also
\* inside the configuration of a key that is renamed or converted.
C20_RuleAppliesToItsKeyOnly ==
    st_pc = "done"
    => \A pr \in KeyPairs(st_old.configuration, startup.configuration, "t") :
           NoRenameNoConversion(pr)
           => /\ pr.new.name = pr.old.name
              /\ pr.old.value.type # "config" => pr.new.value = pr.old.value

----------------------------------------------------------------------------
(* The top-level drivers and the module-level id_scope *)

\* id_scope left as the first call set it
ScopeOfFirst(c) == [kind |-> "ref", call |-> 1]

\* id_scope names an IdScope object by the call that made it
ScopeOf(c) == [kind |-> "ref", call |-> c]

\* line 288: IdScope(remap={DBAbstraction.vtType: DBModule.vtType,
\*                          DBGroup.vtType: DBModule.vtType})
NewWorkflowIdScope ==
    [kind |-> "IdScope", ids |-> [x \in IdTypes |-> 0],
     remap |-> [abstraction |-> "module", group |-> "module"]]

\* lines 284-285
WorkflowTranslateDict ==
    [DBModule |-> [portSpecs |-> "update_portSpecs"],
     DBGroup  |-> [workflow |-> "update_workflow"]]

\* line 301
RegistryTranslateDict == [DBModuleDescriptor |-> [portSpecs |-> "update_portSpecs"]]

\* the translate dict of each driver (lines 261-268, 284-285, 294, 301)
DriverTranslateDict(driver) ==
    CASE driver = "translateVistrail" -> StaticTranslateDict
      [] driver = "translateWorkflow" -> WorkflowTranslateDict
      [] driver = "translateRegistry" -> RegistryTranslateDict
      [] OTHER -> <<>>

\* the class whose update_version translates the object
ClassOf(obj) ==
    CASE obj.vtType = "module" -> "DBModule"
      [] obj.vtType = "group" -> "DBGroup"
      [] OTHER -> "DBModuleDescriptor"

\* update_workflow that hands back the new, empty DBWorkflow
update_workflow_empty(modules, trans_dict, scope) ==
    [raised |-> FALSE, modules |-> <<>>, scope |-> scope]

\* the new object around the result r of translating its port specs
with_portSpecs(obj, r) ==
    [raised |-> r.raised,
     modules |-> <<[vtType |-> obj.vtType, id |-> obj.id,
                    portSpecs |-> r.portSpecs, workflow |-> <<>>]>>,
     scope |-> r.scope]

\* the new group around the result r of translating its workflow
with_workflow(obj, r) ==
    [raised |-> r.raised,
     modules |-> <<[vtType |-> obj.vtType, id |-> obj.id,
                    portSpecs |-> <<>>, workflow |-> r.modules]>>,
     scope |-> r.scope]

\* the generic copy of port specs: no override, no items
copied_portSpecs(portSpecs, scope) ==
    [raised |-> FALSE,
     portSpecs |-> [i \in 1..Len(portSpecs) |->
                       [kind |-> "portSpec", portSpecItems |-> <<>>]],
     scope |-> scope]

\* st is the loop state (raised, the new modules so far, the id scope), r the
\* result for the next module
append_module(st, r) ==
    [raised |-> r.raised, modules |-> st.modules \o r.modules, scope |-> r.scope]

RECURSIVE update_workflow(_, _, _)
RECURSIVE update_version_module(_, _, _)
RECURSIVE update_version_modules(_, _, _)

\* DBModule / DBGroup / DBModuleDescriptor.update_version(obj, trans_dict):
\* the port specs through the override of portSpecs when trans_dict holds
\* one for the class, copied otherwise; the workflow of a group through
\* update_workflow
update_version_module(obj, trans_dict, scope) ==
    IF obj.vtType = "group"
    THEN with_workflow(obj, update_workflow(obj.workflow, trans_dict, scope))
    ELSE with_portSpecs(obj,
             IF ClassOf(obj) \in DOMAIN trans_dict
                /\ "portSpecs" \in DOMAIN trans_dict[ClassOf(obj)]
             THEN update_portSpecs(obj.portSpecs, scope)
             ELSE copied_portSpecs(obj.portSpecs, scope))

\* DBWorkflow.update_version(workflow, trans_dict): the modules in order
update_version_modules(modules, trans_dict, st) ==
    IF modules = <<>> \/ st.raised THEN st
    ELSE update_version_modules(Tail(modules), trans_dict,
             append_module(st, update_version_module(Head(modules), trans_dict,
                                                     st.scope)))

\* lines 204-206 and 282-283: DBWorkflow.update_version on the workflow of
\* the group, with the same translate dict
update_workflow(modules, trans_dict, scope) ==
    update_version_modules(modules, trans_dict,
        [raised |-> FALSE, modules |-> <<>>, scope |-> scope])

\* what is left of a driver once the modules are translated: for
\* translateVistrail the action annotations (lines 249-259 and 274-275, the
\* ids from vistrail.idScope), for translateStartup the configuration
\* (lines 382-442).  scope is the IdScope object of the call.
finish_vistrail(out, r) ==
    [raised |-> r.raised \/ \E i \in 1..Len(r.pes) : r.pes[i] = PyNone,
     root |-> [out EXCEPT !.parameter_explorations = r.pes],
     scope |-> r.scope]

finish_startup(out, r, scope) ==
    [raised |-> r.raised,
     root |-> [out EXCEPT !.configuration = r.new_keys],
     scope |-> scope]

finish_root(doc, out, scope) ==
    CASE doc.driver = "translateVistrail" ->
             finish_vistrail(out, update_actionAnnotations(doc.actionAnnotations,
                                                           Pipeline, scope))
      [] doc.driver = "translateStartup" ->
             finish_startup(out, update_config_keys(doc.configuration,
                                                    StartupTranslateDict), scope)
      [] OTHER -> [raised |-> FALSE, root |-> out, scope |-> scope]

----------------------------------------------------------------------------
(* Inputs of the top-level drivers *)

Module(vtType, portSpecs, workflow) ==
    [vtType |-> vtType, id |-> 0, portSpecs |-> portSpecs, workflow |-> workflow]

\* the modules get their ids from where they are in the document
RECURSIVE number_modules(_, _)
number_modules(modules, prefix) ==
    [i \in 1..Len(modules) |->
        [modules[i] EXCEPT !.id = 10 * prefix + i,
                           !.workflow = number_modules(@, 10 * prefix + i)]]

PlainModule == Module("module", <<GoodPortSpec>>, <<>>)

\* a module whose port spec makes update_portSpec raise
StringDefaultModule == Module("module", <<StringDefaultPortSpec>>, <<>>)

\* a group whose workflow has three modules, one of them a group
GroupModule ==
    Module("group", <<>>,
           <<PlainModule, Module("group", <<>>, <<PlainModule>>), PlainModule>>)

ModuleDescriptor == Module("module_descriptor", <<GoodPortSpec>>, <<>>)

Document(driver, version, modules, actionAnnotations, configuration) ==
    [driver |-> driver, version |-> version, modules |-> number_modules(modules, 0),
     actionAnnotations |-> actionAnnotations, configuration |-> configuration]

FullDocAnnotation == [key |-> "__paramexp__", action_id |-> 1, value |-> FullDoc]

SmallConfiguration ==
    number_keys(<<ConfigKey("nologger", LeafValue("bool", "true")),
                  ConfigKey("showMovies", LeafValue("bool", "false"))>>, 0)

Documents ==
    {Document("translateWorkflow", v, ms, <<>>, <<>>) :
        v \in {"1.0.2", "1.0.3"},
        ms \in SeqsUpTo({PlainModule, GroupModule, StringDefaultModule}, MaxModules)}
    \cup {Document("translateVistrail", v, ms, aas, <<>>) :
        v \in {"1.0.2", "1.0.3"},
        ms \in SeqsUpTo({PlainModule, GroupModule}, MaxModules),
        aas \in {<<>>, <<FullDocAnnotation>>}}
    \cup {Document("translateRegistry", v, ms, <<>>, <<>>) :
        v \in {"1.0.2", "1.0.3"}, ms \in SeqsUpTo({ModuleDescriptor}, MaxModules)}
    \cup {Document("translateLog", v, <<>>, <<>>, <<>>) : v \in {"1.0.2", "1.0.3"}}
    \cup {Document("translateStartup", v, <<>>, <<>>, SmallConfiguration) :
        v \in {"1.0.2", "1.0.3"}}

\* the documents of the calls after the first
LaterDocuments ==
    {Document("translateWorkflow", "1.0.2", <<PlainModule, PlainModule>>, <<>>, <<>>),
     Document("translateVistrail", "1.0.3", <<PlainModule>>, <<FullDocAnnotation>>, <<>>),
     Document("translateRegistry", "1.0.2", <<ModuleDescriptor>>, <<>>, <<>>),
     Document("translateLog", "1.0.2", <<>>, <<>>, <<>>),
     Document("translateStartup", "1.0.2", <<>>, <<>>, SmallConfiguration)}

InitDrivers ==
    /\ id_scope = NoScope
    /\ dr_pc = [c \in Calls |-> "idle"]
    /\ dr_in \in {docs \in [Calls -> Documents] :
                     \A c \in Calls \ {1} : docs[c] \in LaterDocuments}
    /\ dr_out = [c \in Calls |-> NoDocument]
    /\ dr_scopes = [c \in Calls |-> NoScope]
    /\ IdlePortSpec
    /\ IdlePE
    /\ IdleVistrail
    /\ IdleStartup
    /\ IdleWhile
    /\ IdleLocator

\* the IdScope object a driver makes (lines 269-270, 288, 302-303); None for
\* the drivers that make none
MadeScope(driver) ==
    CASE driver \in {"translateVistrail", "translateRegistry"} -> NewIdScope
      [] driver = "translateWorkflow" -> NewWorkflowIdScope
      [] OTHER -> NoScope

\* the start of a driver, up to the call of update_version: the new root
\* object, the new IdScope and the assignment to the module-level id_scope
\* (lines 269-270, 287-288, 302-303; translateLog and translateStartup do
\* not assign it).  The calls start in the order of their numbers.
EnterDriver(c) ==
    /\ dr_pc[c] = "idle"
    /\ \A d \in Calls : d < c => dr_pc[d] # "idle"
    /\ dr_pc' = [dr_pc EXCEPT ![c] = "running"]
    /\ dr_scopes' = [dr_scopes EXCEPT ![c] = MadeScope(dr_in[c].driver)]
    /\ id_scope' = IF MadeScope(dr_in[c].driver) # NoScope THEN ScopeOf(c) ELSE id_scope
    /\ dr_out' = [dr_out EXCEPT ![c] =
                     [driver |-> dr_in[c].driver, version |-> "None", modules |-> <<>>,
                      parameter_explorations |-> <<>>, configuration |-> <<>>]]
    /\ UNCHANGED <<dr_in, ps_vars, pe_vars, vt_vars, st_vars, wh_vars, lc_vars>>

\* a driver called when no other call is running
EnterDriverAlone(c) ==
    /\ \A d \in Calls : dr_pc[d] # "running"
    /\ EnterDriver(c)

\* update_portSpec that extends the labels of the old port spec in place
old_after_update_portSpec_extended(old_obj) ==
    [old_obj EXCEPT !.labels =
        [form |-> "list",
         elems |-> @.elems \o [i \in 1..(Len(decode_sigstring(old_obj.sigstring))
                                          - Len(@.elems)) |-> ""]]]

\* the old port spec after update_portSpec: db_sigstring, db_defaults and
\* db_labels are read (lines 58, 64, 73); defaults and labels are the values
\* of eval, and it is those that are wrapped and extended (lines 65-86)
old_after_update_portSpec(old_obj) == old_obj

\* the old module after its update_version: the port specs after
\* update_portSpec (line 112 reads them), the workflow of a group after
\* update_workflow (lines 205, 283 read it)
RECURSIVE old_after_update_version(_)
old_after_update_version(obj) ==
    [obj EXCEPT
        !.portSpecs = [j \in 1..Len(obj.portSpecs) |->
                          old_after_update_portSpec(obj.portSpecs[j])],
        !.workflow = [i \in 1..Len(obj.workflow) |->
                         old_after_update_version(obj.workflow[i])]]

\* update_version of the next module of the document, its port spec items
\* with ids from the IdScope that id_scope names now (line 98)
TranslateModule(c) ==
    /\ dr_pc[c] = "running"
    /\ Len(dr_out[c].modules) < Len(dr_in[c].modules)
    /\ \E r \in {update_version_module(dr_in[c].modules[Len(dr_out[c].modules) + 1],
                                       DriverTranslateDict(dr_in[c].driver),
                                       dr_scopes[id_scope.call])} :
           IF r.raised
           THEN /\ dr_pc' = [dr_pc EXCEPT ![c] = "raised"]
                /\ UNCHANGED <<dr_out, dr_scopes>>
           ELSE /\ dr_out' = [dr_out EXCEPT ![c].modules = @ \o r.modules]
                /\ dr_scopes' = [dr_scopes EXCEPT ![id_scope.call] = r.scope]
                /\ UNCHANGED dr_pc
    /\ dr_in' = [dr_in EXCEPT ![c].modules[Len(dr_out[c].modules) + 1] =
                     old_after_update_version(@)]
    /\ UNCHANGED <<id_scope, ps_vars, pe_vars, vt_vars, st_vars, wh_vars, lc_vars>>

\* the rest of the driver: the fields after the modules, the version tag
\* (lines 277, 290, 296, 305, 450) and the return
FinishDriver(c) ==
    /\ dr_pc[c] = "running"
    /\ Len(dr_out[c].modules) = Len(dr_in[c].modules)
    /\ \E r \in {finish_root(dr_in[c], dr_out[c], dr_scopes[c])} :
           IF r.raised
           THEN /\ dr_pc' = [dr_pc EXCEPT ![c] = "raised"]
                /\ UNCHANGED <<dr_out, dr_scopes>>
           ELSE /\ dr_pc' = [dr_pc EXCEPT ![c] = "returned"]
                /\ dr_out' = [dr_out EXCEPT ![c] =
                                 set_version([r.root EXCEPT !.version = dr_in[c].version])]
                /\ dr_scopes' = [dr_scopes EXCEPT ![c] = r.scope]
    /\ UNCHANGED <<id_scope, dr_in, ps_vars, pe_vars, vt_vars, st_vars, wh_vars, lc_vars>>

\* the calls one after the other
NextDrivers ==
    \E c \in Calls : EnterDriverAlone(c) \/ TranslateModule(c) \/ FinishDriver(c)

SpecDrivers == InitDrivers /\ [][NextDrivers]_vars

\* the calls in two threads
NextThreads ==
    \E c \in Calls : EnterDriver(c) \/ TranslateModule(c) \/ FinishDriver(c)

SpecThreads == InitDrivers /\ [][NextThreads]_vars

----------------------------------------------------------------------------
(* Properties of the top-level drivers *)

ScopeMakers == {"translateVistrail", "translateWorkflow", "translateRegistry"}

\* the ids 0 .. n-1 in the order of allocation
Counted(n) == [i \in 1..n |-> i - 1]

RECURSIVE Flat(_)
Flat(seqs) == IF seqs = <<>> THEN <<>> ELSE Head(seqs) \o Flat(Tail(seqs))

\* the ids of the port spec items of the modules, in the order of creation
RECURSIVE ItemIds(_)
ItemIds(modules) ==
    Flat([i \in 1..Len(modules) |->
            Flat([j \in 1..Len(modules[i].portSpecs) |->
                    [k \in 1..Len(modules[i].portSpecs[j].portSpecItems) |->
                        modules[i].portSpecs[j].portSpecItems[k].id]])
            \o ItemIds(modules[i].workflow)])

ExplorationIds(pes) == [i \in 1..Len(pes) |-> pes[i].id]

DocFunctionIds(pes) ==
    Flat([i \in 1..Len(pes) |->
            [j \in 1..Len(pes[i].functions) |-> pes[i].functions[j].id]])

ParameterIds(pes) ==
    Flat([i \in 1..Len(pes) |->
            Flat([j \in 1..Len(pes[i].functions) |->
                    [k \in 1..Len(pes[i].functions[j].parameters) |->
                        pes[i].functions[j].parameters[k].id]])])

\* the ids of one type in the document are the allocations of the scope
AllocatedFrom(ids, scope, type) ==
    /\ ids = Counted(Len(ids))
    /\ (Len(ids) > 0 => scope.kind = "IdScope")
    /\ (scope.kind = "IdScope" => scope.ids[type] = Len(ids))

\* the parameter explorations of the new vistrail of call c
Explorations(c) ==
    [i \in 1..Len(dr_out[c].parameter_explorations) |->
        dr_out[c].parameter_explorations[i].pe]

OwnAllocations(c) ==
    /\ AllocatedFrom(ItemIds(dr_out[c].modules), dr_scopes[c], "portSpecItem")
    /\ AllocatedFrom(ExplorationIds(Explorations(c)), dr_scopes[c],
                     "parameterExploration")
    /\ AllocatedFrom(DocFunctionIds(Explorations(c)), dr_scopes[c], "peFunction")
    /\ AllocatedFrom(ParameterIds(Explorations(c)), dr_scopes[c], "peParameter")

\* C12: in a sequence of driver calls, the port spec items, parameter
\* explorations, functions and parameters created by a returned
\* translateVistrail / translateWorkflow / translateRegistry call carry the
\* ids 0, 1, 2, ... of their type, each one allocation of the IdScope the call
\* created (whose counter is the number of them), so they are pairwise
\* distinct and none comes from the scope of an earlier call.
C12_IdsFromOwnScope ==
    \A c \in Calls :
        (dr_pc[c] = "returned" /\ dr_in[c].driver \in ScopeMakers) => OwnAllocations(c)

\* the second call returned after the first, both created port spec items,
\* the second also a parameter exploration
C12_Witness ==
    /\ dr_pc[1] = "returned" /\ dr_pc[2] = "returned"
    /\ dr_in[1].driver \in ScopeMakers
    /\ Len(ItemIds(dr_out[1].modules)) > 1
    /\ Len(ItemIds(dr_out[2].modules)) > 0
    /\ Len(ParameterIds(Explorations(2))) > 0

\* C13: under any interleaving of two driver calls, the port spec items of
\* each document, while the call runs and after it returned, carry the
\* allocations of the IdScope of their own call.
C13_OwnScopeUnderInterleaving ==
    \A c \in Calls :
        (dr_pc[c] \in {"running", "returned"} /\ dr_in[c].driver \in ScopeMakers)
            => AllocatedFrom(ItemIds(dr_out[c].modules), dr_scopes[c], "portSpecItem")

\* C14: each of the five drivers returns a root object whose version is
\* exactly "1.0.3", whatever the version of its input.
C14_VersionOverwritten ==
    \A c \in Calls : dr_pc[c] = "returned" => dr_out[c].version = "1.0.3"

\* a returned call whose input was already "1.0.3", after another returned
\* call of a different driver
C14_Witness ==
    /\ dr_pc[1] = "returned" /\ dr_pc[2] = "returned"
    /\ dr_in[1].version = "1.0.3"
    /\ dr_in[1].driver # dr_in[2].driver
    /\ dr_in[2].driver = "translateStartup"

\* C15: no step of a driver call changes the caller's document: it is the
\* same after a call that returned and after one that raised part-way.
C15_InputUnchanged == [][dr_in' = dr_in]_vars

\* the first call raised on a later module after it translated one with port
\* specs, and the second call returned
C15_Witness ==
    /\ dr_pc[1] = "raised"
    /\ Len(ItemIds(dr_out[1].modules)) > 0
    /\ dr_in[1].modules[Len(dr_out[1].modules) + 1] = [StringDefaultModule EXCEPT !.id = 2]
    /\ dr_pc[2] = "returned"
    /\ Len(ItemIds(dr_out[2].modules)) > 0

\* the new modules stand for the old ones at every depth: same number, same
\* type and id, one new port spec per old one, its items as update_portSpec
\* gives them for the old port spec (whatever the ids)
RECURSIVE SameShape(_, _)
SameShape(old, new) ==
    /\ Len(new) = Len(old)
    /\ \A i \in 1..Len(old) :
          /\ new[i].vtType = old[i].vtType
          /\ new[i].id = old[i].id
          /\ SameShape(old[i].workflow, new[i].workflow)
          /\ old[i].vtType # "group" =>
                /\ Len(new[i].portSpecs) = Len(old[i].portSpecs)
                /\ \A j \in 1..Len(old[i].portSpecs) :
                      Len(new[i].portSpecs[j].portSpecItems)
                          = Len(update_portSpec(old[i].portSpecs[j], NewIdScope).portSpecItems)

RECURSIVE ModuleIds(_)
ModuleIds(modules) ==
    Flat([i \in 1..Len(modules) |-> <<modules[i].id>> \o ModuleIds(modules[i].workflow)])

Distinct(seq) == \A i, j \in 1..Len(seq) : seq[i] = seq[j] => i = j

HasGroup(modules) == \E i \in 1..Len(modules) : modules[i].vtType = "group"

----------------------------------------------------------------------------
(* Interpolators that createParameterExploration does not handle *)

\* the PEParameters of a ParameterExploration in the order they were made
EmittedParams(pe) ==
    Flat([j \in 1..Len(pe.functions) |-> pe.functions[j].parameters])

\* C30: a resolved <param> whose interp is none of the five handled kinds
\* gets no value of its own: the PEParameter made for it is not the first of
\* its call and carries the value of the PEParameter made before it, in the
\* same or an earlier function; and a call whose first processed <param> is
\* of such a kind raises, the error ending translateVistrail: no vistrail with
\* such an annotation gets past its action annotations.
C30_UnhandledInterpolatorKeepsValue ==
    /\ \A i \in DOMAIN new_param_exps :
           new_param_exps[i] # PyNone
           => \A n \in DOMAIN EmittedParams(new_param_exps[i].pe) :
                  EmittedParams(new_param_exps[i].pe)[n].interpolator
                      \notin HandledInterpolators
                  => /\ n > 1
                     /\ EmittedParams(new_param_exps[i].pe)[n].value
                            = EmittedParams(new_param_exps[i].pe)[n - 1].value
    /\ vt_pc \in {"attach", "done"}
         => \A i \in DOMAIN vt_old.actionAnnotations :
                (IsParamExp(vt_old.actionAnnotations[i])
                 /\ HasUsableText(vt_old.actionAnnotations[i]))
                => ValueAlwaysBound(vt_old.actionAnnotations[i].value.functions)

\* a translated vistrail whose ParameterExploration has, in its second
\* function, a parameter of an unhandled kind with the value of the list
\* parameter of the first function
C30_Witness ==
    /\ vt_pc = "done"
    /\ Len(new_param_exps) >= 1
    /\ new_param_exps[1] # PyNone
    /\ Len(new_param_exps[1].pe.functions) = 2
    /\ new_param_exps[1].pe.functions[2].parameters[1].interpolator = "Other"
    /\ new_param_exps[1].pe.functions[2].parameters[1].value = "[v2]"
    /\ new_param_exps[1].pe.functions[1].parameters[2].value = "[v2]"

----------------------------------------------------------------------------
(* The While module (looping.py) *)

\* a value of a port that holds a list of port names: set is false for None
Names(names) == [set |-> TRUE, names |-> names]
NoNames == [set |-> FALSE, names |-> <<>>]

\* the truth value of such a value: None and the empty list are false
truthy(v) == v.set /\ v.names # <<>>

\* lines 49-71 of other_ports_ready: the checks; "ok" or the error raised
other_ports_ready_checks(conf) ==
    CASE conf.name_condition = NoValue /\ ~conf.has_max_iterations ->
             "Please set MaxIterations or use ConditionPort"
      [] (truthy(conf.name_state_input) \/ truthy(conf.name_state_output))
         /\ (~truthy(conf.name_state_input) \/ ~truthy(conf.name_state_output)) ->
             "BOTH StateInputPorts and StateOutputPorts"
      [] (truthy(conf.name_state_input) \/ truthy(conf.name_state_output))
         /\ Len(conf.name_state_input.names) # Len(conf.name_state_output.names) ->
             "same number of ports"
      [] conf.function_port # 1 -> "Multiple modules connected on FunctionPort"
      [] OTHER -> "ok"

\* Module.__copy__: the copy has inputPorts and outputPorts dicts of its own,
\* which hold the connector lists of the original
copy_module(module) ==
    [inputPorts |-> module.inputPorts, outputPorts |-> module.outputPorts,
     loop_iteration |-> module.loop_iteration]

\* Module.set_input_port(port, conn): the connector is appended to the list
\* of the port, or put in a new list when inputPorts has no such port.
\* ph = [ports, heap]: an inputPorts dict and the connector lists
set_input_port(ph, port, conn) ==
    IF port \in DOMAIN ph.ports
    THEN [ports |-> ph.ports,
          heap |-> [ph.heap EXCEPT ![ph.ports[port]] = Append(@, conn)]]
    ELSE [ports |-> setitem(ph.ports, port, Len(ph.heap) + 1),
          heap |-> Append(ph.heap, <<conn>>)]

\* set_state_port without the del of lines 95-96
set_state_port_keep(ph, value, port) == set_input_port(ph, port, value)

\* lines 95-100: one pass of the loop over izip(state, name_state_input)
set_state_port(ph, value, port) ==
    set_input_port([ports |-> IF port \in DOMAIN ph.ports
                              THEN delitem(ph.ports, port) ELSE ph.ports,
                    heap |-> ph.heap],
                   port, value)

\* lines 94-100: the loop over izip(state, self.name_state_input)
RECURSIVE set_state_ports(_, _, _)
set_state_ports(ph, state, names) ==
    IF state = <<>> \/ names = <<>> THEN ph
    ELSE set_state_ports(set_state_port(ph, Head(state), Head(names)),
                         Tail(state), Tail(names))

\* the module of the iteration around the ports ph
module_of_iteration(i, ph) ==
    [module |-> [inputPorts |-> ph.ports, outputPorts |-> <<>>, loop_iteration |-> i],
     heap |-> ph.heap]

\* lines 80-100 of iteration: the copy of orig_module for iteration i, with
\* the state on its input ports
iteration(i, state, conf, heap) ==
    module_of_iteration(i,
        IF ~conf.upToDate /\ i > 0 /\ truthy(conf.name_state_input)
        THEN set_state_ports([ports |-> copy_module(conf.orig_module).inputPorts,
                              heap |-> heap],
                             state.values, conf.name_state_input.names)
        ELSE [ports |-> copy_module(conf.orig_module).inputPorts, heap |-> heap])

\* Module.getInputFromPort(port): the value of the first connector of the
\* port, 0 when the port has none
input_value(ports, heap, port) ==
    IF port \in DOMAIN ports THEN heap[ports[port]][1] ELSE 0

\* the connector list of every input port of the module
port_lists(module, heap) ==
    [port \in DOMAIN module.inputPorts |-> heap[module.inputPorts[port]]]

\* what the module reads from its ports i and j
inputs_read(module, heap) ==
    [i |-> input_value(module.inputPorts, heap, "i"),
     j |-> input_value(module.inputPorts, heap, "j")]

\* "it's %d!!!" % o (line 153): the text around the digits of o
format_r(o) == <<"it's ", o, "!!!">>

\* the looped module of test_pythonsource (lines 152-154), with a second
\* pair of ports: o = i * 2, r is the text for o, go_on = o < limit, p = j + 1
compute(in, limit) ==
    [o |-> in.i * 2, r |-> format_r(in.i * 2), go_on |-> (in.i * 2 < limit),
     p |-> in.j + 1]

\* lines 108-115: "raise", "finished" (the condition is false) or "go_on"
condition_check(conf, module) ==
    CASE conf.name_condition = NoValue -> "go_on"
      [] conf.name_condition \notin DOMAIN module.outputPorts -> "raise"
      [] module.outputPorts[conf.name_condition] = FALSE -> "finished"
      [] OTHER -> "go_on"

\* lines 122-124: state after the if; it is bound only when
\* name_state_output is true
state_after(conf, module) ==
    IF truthy(conf.name_state_output)
    THEN [bound |-> TRUE,
          values |-> [k \in 1..Len(conf.name_state_output.names) |->
                         module.outputPorts[conf.name_state_output.names[k]]]]
    ELSE NoState

\* iteration_done that goes on whatever the condition port gives
iteration_done_unconditional(i, module, conf) ==
    IF i + 1 >= conf.max_iterations
    THEN [next |-> "finished", state |-> state_after(conf, module)]
    ELSE IF ~state_after(conf, module).bound
    THEN [next |-> "raise", state |-> NoState]
    ELSE [next |-> "iteration", state |-> state_after(conf, module)]

\* lines 105-129: what iteration_done does next: "raise", "finished" or
\* "iteration" with the state; the read of state at line 129 raises when
\* state is not bound
iteration_done(i, module, conf) ==
    IF condition_check(conf, module) # "go_on"
    THEN [next |-> condition_check(conf, module), state |-> NoState]
    ELSE IF i + 1 >= conf.max_iterations
    THEN [next |-> "finished", state |-> state_after(conf, module)]
    ELSE IF ~state_after(conf, module).bound
    THEN [next |-> "raise", state |-> NoState]
    ELSE [next |-> "iteration", state |-> state_after(conf, module)]

\* lines 131-142: the result, or the error of lines 134-136
finished(conf, module) ==
    IF conf.name_output \notin DOMAIN module.outputPorts
    THEN [raised |-> TRUE, value |-> <<>>]
    ELSE [raised |-> FALSE, value |-> module.outputPorts[conf.name_output]]

\* the number of iterations a run may ask for
MaxIterations == 5

\* the value on the input port i of the looped module (line 165); the
\* second input port j holds 0
InitialI == 5

\* the bound of go_on in the source of the looped module (line 154 has 100)
Limits == {1, 15, 100}

\* the module connected on FunctionPort, and its connector lists
LoopedModule ==
    [inputPorts |-> ("i" :> 1) @@ ("j" :> 2), outputPorts |-> <<>>,
     loop_iteration |-> 0]
LoopedHeap == <<(<<InitialI>>), (<<0>>)>>

StateInputs ==
    {NoNames, Names(<<>>), Names(<<"i">>), Names(<<"i", "j">>),
     Names(<<"j", "i">>), Names(<<"k">>)}
StateOutputs == {NoNames, Names(<<>>), Names(<<"o">>), Names(<<"o", "p">>)}

\* lines 42-47 and 72: what other_ports_ready reads from the input ports
WhileConfs ==
    [name_output : {"r", "missing"},
     name_condition : {NoValue, "go_on", "missing"},
     name_state_input : StateInputs,
     name_state_output : StateOutputs,
     max_iterations : 1..MaxIterations,
     has_max_iterations : BOOLEAN,
     limit : Limits,
     function_port : {1, 2},
     upToDate : {FALSE},
     orig_module : {LoopedModule}]

InitWhile ==
    /\ id_scope = NoScope
    /\ IdlePortSpec /\ IdlePE /\ IdleVistrail /\ IdleStartup /\ IdleDrivers
    /\ IdleLocator
    /\ wh_pc = "update"
    /\ wh_conf \in WhileConfs
    /\ wh_i = 0
    /\ wh_module = NoModule
    /\ wh_heap = LoopedHeap
    /\ wh_state = NoState
    /\ wh_log = <<>>
    /\ wh_result = NoResult

NotWhile == <<id_scope, ps_vars, pe_vars, vt_vars, st_vars, dr_vars, lc_vars>>

\* iteration(i, state): lines 77-103, up to the run of the module
StartIteration(i, state, it) ==
    /\ wh_i' = i
    /\ wh_state' = state
    /\ wh_module' = it.module
    /\ wh_heap' = it.heap
    /\ wh_pc' = "running"

\* other_ports_ready: lines 42-75
OtherPortsReady ==
    /\ wh_pc = "update"
    /\ IF other_ports_ready_checks(wh_conf) # "ok"
       THEN /\ wh_pc' = "error"
            /\ UNCHANGED <<wh_i, wh_state, wh_module, wh_heap>>
       ELSE StartIteration(0, NoState, iteration(0, NoState, wh_conf, wh_heap))
    /\ UNCHANGED <<wh_conf, wh_log, wh_result>>
    /\ UNCHANGED NotWhile

\* run_upstream_module (lines 102-103): the module of the iteration computes
RunModule ==
    /\ wh_pc = "running"
    /\ \E in \in {inputs_read(wh_module, wh_heap)} :
         /\ wh_module' = [wh_module EXCEPT !.outputPorts = compute(in, wh_conf.limit)]
         /\ wh_log' = Append(wh_log, [i |-> wh_i, in |-> in,
                                      out |-> compute(in, wh_conf.limit),
                                      lists |-> port_lists(wh_module, wh_heap)])
    /\ wh_pc' = "iteration_done"
    /\ UNCHANGED <<wh_conf, wh_i, wh_heap, wh_state, wh_result>>
    /\ UNCHANGED NotWhile

\* finished(module): lines 131-142
Finish(f) ==
    /\ IF f.raised
       THEN wh_pc' = "error" /\ UNCHANGED wh_result
       ELSE /\ wh_pc' = "done"
            /\ wh_result' = [set |-> TRUE, value |-> f.value,
                             finished |-> wh_result.finished + 1]
    /\ UNCHANGED <<wh_i, wh_state, wh_module, wh_heap>>

\* iteration_done(i, module): lines 105-129
IterationDone ==
    /\ wh_pc = "iteration_done"
    /\ \E d \in {iteration_done(wh_i, wh_module, wh_conf)} :
         CASE d.next = "raise" ->
                  /\ wh_pc' = "error"
                  /\ UNCHANGED <<wh_i, wh_state, wh_module, wh_heap, wh_result>>
           [] d.next = "finished" -> Finish(finished(wh_conf, wh_module))
           [] OTHER ->
                  /\ StartIteration(wh_i + 1, d.state,
                                    iteration(wh_i + 1, d.state, wh_conf, wh_heap))
                  /\ UNCHANGED wh_result
    /\ UNCHANGED <<wh_conf, wh_log>>
    /\ UNCHANGED NotWhile

NextWhile == OtherPortsReady \/ RunModule \/ IterationDone

SpecWhile == InitWhile /\ [][NextWhile]_vars

----------------------------------------------------------------------------
(* Properties of the While module *)

\* the run passed the checks of other_ports_ready, and OutputPort and
\* ConditionPort name ports the looped module has
GoodPorts ==
    /\ wh_log # <<>>
    /\ wh_conf.name_output = "r"
    /\ wh_conf.name_condition # "missing"

\* C23: the loop stops at the first iteration whose condition output is
\* false: that iteration is the last one started, finished is called for its
\* module, and Result is the value on the OutputPort of that module (an
\* error when the module has no such port).
C23_StopsAtFirstFalseCondition ==
    (wh_log # <<>> /\ wh_conf.name_condition = "go_on") =>
        \A k \in 1..Len(wh_log) :
            wh_log[k].out.go_on = FALSE =>
                /\ k = Len(wh_log)
                /\ wh_pc \in {"iteration_done", "done", "error"}
                /\ wh_pc = "done" <=>
                       (wh_result.set /\ wh_conf.name_output = "r")
                /\ wh_pc = "done" =>
                       wh_result = [set |-> TRUE, value |-> wh_log[k].out.r,
                                    finished |-> 1]
                /\ wh_pc = "error" =>
                       (wh_conf.name_output = "missing" /\ ~wh_result.set)

\* the run of test_pythonsource: five iterations, the result is the text
\* for o = 160
C23_Witness ==
    /\ wh_pc = "done"
    /\ wh_conf.name_condition = "go_on"
    /\ wh_conf.name_state_input = Names(<<"i">>)
    /\ wh_conf.name_state_output = Names(<<"o">>)
    /\ wh_conf.limit = 100
    /\ ~wh_conf.has_max_iterations
    /\ Len(wh_log) = 5
    /\ wh_log[5].out.go_on = FALSE
    /\ wh_result.value = format_r(160)

\* C24: a run that passed the checks starts at most max_iterations
\* iterations, numbered from 0, calls finished at most once, and does not
\* stop without a result.
C24_AtMostNThenFinished ==
    GoodPorts =>
        /\ Len(wh_log) <= wh_conf.max_iterations
        /\ \A k \in 1..Len(wh_log) : wh_log[k].i = k - 1
        /\ wh_result.finished <= 1
        /\ wh_pc = "done" <=> wh_result.finished = 1
        /\ wh_pc # "error"

\* the state ports are set: both lists name ports
StatePortsSet ==
    /\ wh_log # <<>>
    /\ truthy(wh_conf.name_state_input)
    /\ truthy(wh_conf.name_state_output)

\* the connector list of the port in the logged iteration, <<>> without one
ListOf(entry, port) ==
    IF port \in DOMAIN entry.lists THEN entry.lists[port] ELSE <<>>

\* C25: with state ports set, iteration 0 runs with the ports of the
\* original module; in iteration i+1 the k-th StateInputPort holds the value
\* of the k-th StateOutputPort of iteration i and nothing else, every other
\* port holds what the original holds; the connector lists of the original
\* module are never changed.
C25_StatePassedToNextIteration ==
    StatePortsSet =>
        /\ wh_log[1].lists = port_lists(LoopedModule, LoopedHeap)
        /\ \A n \in 2..Len(wh_log) :
               /\ \A k \in 1..Len(wh_conf.name_state_input.names) :
                      ListOf(wh_log[n], wh_conf.name_state_input.names[k])
                          = <<wh_log[n - 1].out[wh_conf.name_state_output.names[k]]>>
               /\ \A port \in DOMAIN LoopedModule.inputPorts :
                      (\A k \in 1..Len(wh_conf.name_state_input.names) :
                           wh_conf.name_state_input.names[k] # port)
                          => ListOf(wh_log[n], port)
                                 = port_lists(LoopedModule, LoopedHeap)[port]
        /\ wh_conf.orig_module = LoopedModule
        /\ port_lists(wh_conf.orig_module, wh_heap)
               = port_lists(LoopedModule, LoopedHeap)

\* three iterations with the state crossed over: j takes o and i takes p
C25_Witness ==
    /\ StatePortsSet
    /\ wh_conf.name_state_input = Names(<<"j", "i">>)
    /\ wh_conf.name_state_output = Names(<<"o", "p">>)
    /\ Len(wh_log) >= 3
    /\ wh_log[2].in = [i |-> 1, j |-> InitialI * 2]
    /\ wh_log[3].in = [i |-> InitialI * 2 + 1, j |-> 2]

----------------------------------------------------------------------------
(* File locators (locator.py); a file name is a sequence of characters *)

\* the most temporaries one file gets
MaxTemps == 11

DecimalDigits == <<"0", "1", "2", "3", "4", "5", "6", "7", "8", "9">>

\* str(number) for number >= 0: its decimal digits
RECURSIVE str(_)
str(number) ==
    IF number < 10 THEN <<DecimalDigits[number + 1]>>
    ELSE str(number \div 10) \o <<DecimalDigits[(number % 10) + 1]>>

\* int(text) for a text of decimal digits
RECURSIVE int(_)
int(text) ==
    IF text = <<>> THEN 0
    ELSE 10 * int(SubSeq(text, 1, Len(text) - 1))
         + ((CHOOSE d \in 1..10 : DecimalDigits[d] = text[Len(text)]) - 1)

\* text.rfind(c) + 1: the position after the last c, 0 when there is none
rfind_end(text, c) ==
    IF \E k \in 1..Len(text) : text[k] = c
    THEN CHOOSE k \in 1..Len(text) :
             text[k] = c /\ \A l \in (k + 1)..Len(text) : text[l] # c
    ELSE 0

\* urllib.quote_plus of one character: letters, digits and _.- are kept
quote_plus_char(c) ==
    CASE c = " " -> <<"+">>
      [] c = "/" -> <<"%", "2", "F">>
      [] OTHER -> <<c>>

\* urllib.quote_plus(filename)
RECURSIVE quote_plus(_)
quote_plus(filename) ==
    IF filename = <<>> THEN <<>>
    ELSE quote_plus_char(Head(filename)) \o quote_plus(Tail(filename))

\* self._dot_vistrails (lines 76-80)
dot_vistrails == <<".", "v">>

\* lines 110-116: encode_name
encode_name(filename) ==
    dot_vistrails \o <<"/">> \o quote_plus(filename) \o <<"_", "t", "m", "p", "_">>

\* os.path.isfile
isfile(fs, fname) == fname \in DOMAIN fs

\* lines 152-165: the names _iter_temporaries calls f with, in sequence
RECURSIVE iter_temporaries(_, _, _)
iter_temporaries(fs, name, current) ==
    IF isfile(fs, encode_name(name) \o str(current))
    THEN <<encode_name(name) \o str(current)>>
         \o iter_temporaries(fs, name, current + 1)
    ELSE <<>>

\* a file name, or None
SomeFile(fname) == [set |-> TRUE, fname |-> fname]
NoFile == [set |-> FALSE, fname |-> <<>>]

\* the last of the names
last_of(names) ==
    IF names = <<>> THEN NoFile ELSE SomeFile(names[Len(names)])

\* lines 180-191: _find_latest_temporary
find_latest_temporary(fs, name) == last_of(iter_temporaries(fs, name, 0))

\* lines 177-178: has_temporaries
has_temporaries(fs, name) == find_latest_temporary(fs, name).set

\* _next_temporary that gives the latest temporary again
next_temporary_same(temporary, name) ==
    IF ~temporary.set THEN encode_name(name) \o <<"0">>
    ELSE temporary.fname

\* lines 193-206: _next_temporary
next_temporary(temporary, name) ==
    IF ~temporary.set THEN encode_name(name) \o <<"0">>
    ELSE SubSeq(temporary.fname, 1, rfind_end(temporary.fname, "_"))
         \o str(int(SubSeq(temporary.fname,
                           rfind_end(temporary.fname, "_") + 1,
                           Len(temporary.fname))) + 1)

\* os.unlink of each of the names
RECURSIVE unlink_all(_, _)
unlink_all(fs, names) ==
    IF names = <<>> THEN fs
    ELSE unlink_all(delitem(fs, Head(names)), Tail(names))

\* clean_temporaries that leaves the files
clean_temporaries_none(fs, name) == fs

\* lines 167-175: clean_temporaries
clean_temporaries(fs, name) == unlink_all(fs, iter_temporaries(fs, name, 0))

\* the format save writes and load reads for the file of the locator
\* (lines 86, 92, 229, 235); temporaries are xml (lines 84, 101, 227)
FormatOf(kind) == IF kind = "zip" THEN "zip_xml" ELSE "xml"

\* io.save_vistrail_to_xml / save_vistrail_to_zip_xml: the file written
Written(format, saved) == [format |-> format, vistrail |-> saved]

\* lines 82-89 and 225-232: the file load opens, and the reader it uses
load(fs, kind, name) ==
    IF find_latest_temporary(fs, name).set
    THEN [file |-> find_latest_temporary(fs, name).fname, reader |-> "xml"]
    ELSE [file |-> name, reader |-> FormatOf(kind)]

\* the vistrails save writes, the unsaved one save_temporary writes, and
\* the names of the file of the locator
Vistrails == {"v1", "v2"}
Unsaved == {"unsaved"}
LocatorNames == {<<"a">>, <<"d", "/", "a", "_", "1">>}

\* the file system with the file of the locator or without it
FileSystems(kind, name) ==
    {<<>>, setitem(<<>>, name, Written(FormatOf(kind), "v1"))}

InitLocator ==
    /\ id_scope = NoScope
    /\ IdlePortSpec /\ IdlePE /\ IdleVistrail /\ IdleStartup /\ IdleDrivers
    /\ IdleWhile
    /\ lc_kind \in {"xml", "zip"}
    /\ lc_name \in LocatorNames
    /\ lc_fs \in FileSystems(lc_kind, lc_name)
    /\ lc_last = NoCall

NotLocator == <<id_scope, ps_vars, pe_vars, vt_vars, st_vars, dr_vars, wh_vars>>

\* what a save that raised leaves: the files as they were, or the file
\* half written
FailedWrite(fs, fname, saved) ==
    {fs, setitem(fs, fname, Written("partial", saved))}

\* save_temporary (lines 98-101); the write succeeds, or raises before the
\* file is made
SaveTemporary ==
    /\ Len(iter_temporaries(lc_fs, lc_name, 0)) < MaxTemps
    /\ \E saved \in Unsaved, ok \in BOOLEAN :
       \E new \in {next_temporary(find_latest_temporary(lc_fs, lc_name), lc_name)} :
         /\ lc_fs' = IF ok THEN setitem(lc_fs, new, Written("xml", saved))
                     ELSE lc_fs
         /\ lc_last' = [op |-> "save_temporary", ok |-> ok, file |-> new,
                        n |-> Len(iter_temporaries(lc_fs, lc_name, 0))]
    /\ UNCHANGED <<lc_kind, lc_name>>
    /\ UNCHANGED NotLocator

\* save (lines 91-96 and 234-239): clean_temporaries runs only when the
\* write did not raise
Save ==
    /\ \E saved \in Vistrails, ok \in BOOLEAN :
         /\ lc_fs' \in IF ok
                        THEN {clean_temporaries(
                                  setitem(lc_fs, lc_name,
                                          Written(FormatOf(lc_kind), saved)),
                                  lc_name)}
                        ELSE FailedWrite(lc_fs, lc_name, saved)
         /\ lc_last' = [op |-> "save", ok |-> ok, file |-> lc_name,
                        n |-> Len(iter_temporaries(lc_fs, lc_name, 0))]
    /\ UNCHANGED <<lc_kind, lc_name>>
    /\ UNCHANGED NotLocator

\* clean_temporaries (lines 167-175)
CleanTemporaries ==
    /\ lc_fs' = clean_temporaries(lc_fs, lc_name)
    /\ lc_last' = [op |-> "clean_temporaries", ok |-> TRUE, file |-> <<>>,
                   n |-> Len(iter_temporaries(lc_fs, lc_name, 0))]
    /\ UNCHANGED <<lc_kind, lc_name>>
    /\ UNCHANGED NotLocator

\* load (lines 82-89 and 225-232): it raises when the file is not there or
\* is not in the reader's format
Load ==
    /\ \E l \in {load(lc_fs, lc_kind, lc_name)} :
         lc_last' = [op |-> "load",
                     ok |-> (isfile(lc_fs, l.file) /\ lc_fs[l.file].format = l.reader),
                     file |-> l.file,
                     n |-> Len(iter_temporaries(lc_fs, lc_name, 0))]
    /\ UNCHANGED <<lc_kind, lc_name, lc_fs>>
    /\ UNCHANGED NotLocator

NextLocator == SaveTemporary \/ Save \/ CleanTemporaries \/ Load

SpecLocator == InitLocator /\ [][NextLocator]_vars

----------------------------------------------------------------------------
(* Properties of the file locators *)

\* text starts with prefix and goes on after it
StartsWith(text, prefix) ==
    Len(text) > Len(prefix) /\ SubSeq(text, 1, Len(prefix)) = prefix

\* the temporary files of the vistrail in the file system
TempFiles == {f \in DOMAIN lc_fs : StartsWith(f, encode_name(lc_name))}

\* the name of the temporary with the number
TempName(number) == encode_name(lc_name) \o str(number)

\* C26: the temporaries are numbered 0..n-1 without a gap; has_temporaries
\* is true exactly when n > 0; _find_latest_temporary gives number n-1, None
\* when n = 0; a save_temporary that succeeded with n temporaries made
\* number n.
C26_TemporariesContiguous ==
    /\ TempFiles = {TempName(k) : k \in 0..(Cardinality(TempFiles) - 1)}
    /\ has_temporaries(lc_fs, lc_name) <=> Cardinality(TempFiles) > 0
    /\ find_latest_temporary(lc_fs, lc_name)
           = IF Cardinality(TempFiles) = 0 THEN NoFile
             ELSE SomeFile(TempName(Cardinality(TempFiles) - 1))
    /\ (lc_last.op = "save_temporary" /\ lc_last.ok) =>
           /\ lc_last.file = TempName(lc_last.n)
           /\ lc_last.file \in TempFiles
           /\ Cardinality(TempFiles) = lc_last.n + 1

\* save_temporary made number 10 after numbers 0..9, for a file name with
\* an underscore in it
C26_Witness ==
    /\ lc_last.op = "save_temporary" /\ lc_last.ok
    /\ lc_last.n = 10
    /\ lc_name = <<"d", "/", "a", "_", "1">>
    /\ lc_last.file = encode_name(lc_name) \o <<"1", "0">>
    /\ Cardinality(TempFiles) = 11

\* C27: after a save that succeeded there is no temporary and load opens
\* the saved file in the format of the locator; a save that failed leaves
\* every temporary; load opens the latest temporary when there is one.
C27_SaveCleansLoadPrefersTemporary ==
    /\ (lc_last.op = "save" /\ lc_last.ok) =>
           /\ TempFiles = {}
           /\ ~has_temporaries(lc_fs, lc_name)
           /\ load(lc_fs, lc_kind, lc_name)
                  = [file |-> lc_name, reader |-> FormatOf(lc_kind)]
           /\ isfile(lc_fs, lc_name)
           /\ lc_fs[lc_name].format = FormatOf(lc_kind)
    /\ (lc_last.op = "save" /\ ~lc_last.ok) =>
           Cardinality(TempFiles) = lc_last.n
    /\ lc_last.op = "load" =>
           /\ lc_last.n = Cardinality(TempFiles)
           /\ lc_last.file = IF lc_last.n > 0 THEN TempName(lc_last.n - 1)
                             ELSE lc_name
           /\ (lc_last.n > 0 /\ lc_last.ok) =>
                  lc_fs[lc_last.file].vistrail \in Unsaved

\* a ZIP locator saved with two temporaries on disk
C27_Witness ==
    /\ lc_kind = "zip"
    /\ lc_last.op = "save" /\ lc_last.ok
    /\ lc_last.n = 2
    /\ TempFiles = {}
    /\ lc_fs[lc_name] = Written("zip_xml", "v2")

====
